---- MODULE Spec2Model ----
(***************************************************************************)
(* State-machine model of the SU2 MCP server: the session registry         *)
(* (session_manager.py), the process runner (su2_runner.py) and the tool   *)
(* layer (tools/*.py).  Threads call tools; every handler is cut into the  *)
(* steps between which another thread can run (a registry access under     *)
(* SessionManager._lock is one step, each file or process operation is     *)
(* one step).                                                              *)
(***************************************************************************)
EXTENDS Integers, Sequences, FiniteSets, TLC

\* ------------------------------------------------------------------ bounds
\* create_session calls in the registry model (Spec) and in the tool model
\* (SpecTools)
MaxSessions == 2
MaxToolSessions == 1

Threads == {"t1", "t2"}
\* uuid.uuid4() values; callers may pass any of them, issued or not
Ids == 1..MaxSessions
\* the ids the tool model passes: every id it issues and one it never issues
ToolIds == 1..(MaxToolSessions + 1)

\* Optional[X]: None is the empty sequence, a present value a one-element one
None == <<>>
Some(x) == <<x>>

\* the outcome of a Python call: a value, or an exception that propagates
Returned(v) == [raised |-> None, value |-> Some(v)]
Raised(exc) == [raised |-> Some(exc), value |-> None]

\* ------------------------------------------------------------------ names
CONFIG_NAME == "config.cfg"
DEFAULT_MESH_NAME == "mesh.su2"
HISTORY_CSV == "history.csv"
HISTORY_DAT == "history.dat"

ErrorTypes == {"not_found", "validation_error", "missing_binary", "timeout", "runtime_error"}

\* a path inside a working directory: workdir / name
Path(d, name) == [dir |-> d, name |-> name]

\* ----------------------------------------------------------- tool responses
NoError == None

\* tools/session.py _error: {"error": {"type", "message", "details"}}
error_envelope(message, error_type) ==
    [status |-> "returned",
     error |-> Some([type |-> error_type, message |-> message]),
     val |-> None]

Payload(v) == [status |-> "returned", error |-> NoError, val |-> Some(v)]

\* an exception that leaves the tool function
Propagated(exc) == [status |-> "raised", error |-> NoError, val |-> Some(exc)]

NoResponse == [status |-> "none", error |-> NoError, val |-> None]

\* the try/except of every tool: KeyError -> not_found, any other Exception ->
\* runtime_error with the tool's own message
tool_except_reraise(exc, message) ==
    IF exc = "KeyError" THEN error_envelope(exc, "not_found") ELSE Propagated(exc)

tool_except(exc, message) ==
    IF exc = "KeyError"
    THEN error_envelope("Unknown session_id", "not_found")
    ELSE error_envelope(message, "runtime_error")

\* close_su2_session and create_su2_session have the catch-all only
tool_except_all(exc, message) == error_envelope(message, "runtime_error")

\* ------------------------------------------------------------------- text
\* A str is a record [lines, eol]: its lines, each a sequence of tokens (a
\* token is a run of characters that the code never splits differently:
\* "MESH_FILENAME", "_BACKUP", "=", " ", "%", a file name), and whether it
\* ends with a newline.  No token other than "MESH_FILENAME" begins with
\* those characters, so a prefix test on characters is one on tokens.
SPACE == " "
EQUALS == "="
COMMA == ","
MESH_KEY == "MESH_FILENAME"

EmptyText == [lines |-> <<>>, eol |-> FALSE]

\* str.splitlines()
splitlines(text) == text.lines

\* "\n".join(lines) + "\n"
join_lines(lines) ==
    IF lines = <<>> THEN [lines |-> << <<>> >>, eol |-> TRUE]
    ELSE [lines |-> lines, eol |-> TRUE]

\* str.strip(): leading and trailing whitespace removed
strip(line) ==
    LET solid == {i \in 1..Len(line) : line[i] # SPACE}
    IN IF solid = {} THEN <<>>
       ELSE LET first == CHOOSE i \in solid : \A j \in solid : i <= j
                last == CHOOSE i \in solid : \A j \in solid : j <= i
            IN SubSeq(line, first, last)

\* str.startswith(prefix)
startswith(line, prefix) == line # <<>> /\ line[1] = prefix

\* separator in line
contains(line, separator) == \E i \in 1..Len(line) : line[i] = separator

\* line.split(separator, maxsplit=1), for a line that contains the separator
split_once(line, separator) ==
    LET at == CHOOSE i \in 1..Len(line) :
                  line[i] = separator /\ \A j \in 1..(i - 1) : line[j] # separator
    IN <<SubSeq(line, 1, at - 1), SubSeq(line, at + 1, Len(line))>>

\* value.split(","): the segments between the commas
RECURSIVE split_all(_, _)
split_all(line, separator) ==
    IF ~contains(line, separator) THEN <<line>>
    ELSE LET parts == split_once(line, separator)
         IN <<parts[1]>> \o split_all(parts[2], separator)

\* --------------------------------------------------------------- config_utils
\* the values of a parsed entry, by Python type
BoolValue(b) == [bool |-> b]
IntValue(n) == [int |-> n]
FloatValue(text) == [float |-> text]
StrValue(tokens) == [str |-> tokens]
ListValue(items) == [list |-> items]

\* the texts int() accepts among the tokens of the model, with their values
IntTexts == [text \in {"5", "7"} |-> IF text = "5" THEN 5 ELSE 7]
\* the texts float() accepts among the tokens of the model that contain "."
FloatTexts == {"5.0"}
\* the texts whose lower() is "true", and "false"
TrueTexts == {"true", "TRUE", "True"}
FalseTexts == {"false", "FALSE", "False"}

infer_scalar_as_text(value) == StrValue(value)

\* config_utils.py 9-18 _infer_scalar: bool, then int or float, else the text
infer_scalar(value) ==
    IF Len(value) = 1 /\ value[1] \in TrueTexts THEN BoolValue(TRUE)
    ELSE IF Len(value) = 1 /\ value[1] \in FalseTexts THEN BoolValue(FALSE)
    ELSE IF Len(value) = 1 /\ value[1] \in FloatTexts THEN FloatValue(value[1])
    ELSE IF Len(value) = 1 /\ value[1] \in DOMAIN IntTexts THEN IntValue(IntTexts[value[1]])
    ELSE StrValue(value)

\* a dict, in insertion order: a sequence of [key, value] with distinct keys
DictKeys(entries) == {entries[i].key : i \in 1..Len(entries)}
DictKeyList(entries) == [i \in 1..Len(entries) |-> entries[i].key]
DictGet(entries, key) ==
    entries[CHOOSE i \in 1..Len(entries) : entries[i].key = key].value
\* entries[key] = value
DictSet(entries, key, value) ==
    IF key \in DictKeys(entries)
    THEN [i \in 1..Len(entries) |->
             IF entries[i].key = key THEN [key |-> key, value |-> value] ELSE entries[i]]
    ELSE Append(entries, [key |-> key, value |-> value])

\* the non-empty stripped segments of a comma-separated value
RECURSIVE nonempty_segments(_)
nonempty_segments(parts) ==
    IF parts = <<>> THEN <<>>
    ELSE IF strip(Head(parts)) = <<>> THEN nonempty_segments(Tail(parts))
    ELSE <<strip(Head(parts))>> \o nonempty_segments(Tail(parts))

\* config_utils.py 25-37: what one line adds to the entries
parse_line(entries, raw_line) ==
    LET line == strip(raw_line)
    IN IF line = <<>> \/ startswith(line, "%") \/ startswith(line, "#") THEN entries
       ELSE IF ~contains(line, EQUALS) THEN entries
       ELSE LET parts == split_once(line, EQUALS)
                key == strip(parts[1])
                value == strip(parts[2])
            IN IF key = <<>> THEN entries
               ELSE IF contains(value, COMMA)
               THEN LET segments == nonempty_segments(split_all(value, COMMA))
                    IN DictSet(entries, key,
                               ListValue([i \in 1..Len(segments) |-> infer_scalar(segments[i])]))
               ELSE DictSet(entries, key, infer_scalar(value))

RECURSIVE parse_lines(_, _)
parse_lines(entries, lines) ==
    IF lines = <<>> THEN entries
    ELSE parse_lines(parse_line(entries, Head(lines)), Tail(lines))

\* config_utils.py 21-38 parse_config_text
parse_config_text(config_text) == parse_lines(<<>>, splitlines(config_text))

\* str(value) of an int among IntTexts
IntText(n) == CHOOSE text \in DOMAIN IntTexts : IntTexts[text] = n

\* config_utils.py 46-51 _format_value, as tokens
RECURSIVE format_value(_)
format_value(value) ==
    IF "list" \in DOMAIN value
    THEN IF value.list = <<>> THEN <<>>
         ELSE IF Len(value.list) = 1 THEN format_value(value.list[1])
         ELSE format_value(value.list[1]) \o <<COMMA, SPACE>>
                  \o format_value(ListValue(Tail(value.list)))
    ELSE IF "bool" \in DOMAIN value THEN <<IF value.bool THEN "TRUE" ELSE "FALSE">>
    ELSE IF "int" \in DOMAIN value THEN <<IntText(value.int)>>
    ELSE IF "float" \in DOMAIN value THEN <<value.float>>
    ELSE value.str

\* config_utils.py 73-74 _serialize_entries: one "KEY= value" line per entry
serialize_entries(entries) ==
    [i \in 1..Len(entries) |->
        entries[i].key \o <<EQUALS, SPACE>> \o format_value(entries[i].value)]

\* config_utils.py 63-66: the loop over updates.items()
RECURSIVE merge_updates(_, _, _)
merge_updates(state, updates, create_if_missing) ==
    IF updates = <<>> THEN state
    ELSE LET key == Head(updates).key
             write == key \in DictKeys(state.entries) \/ create_if_missing
         IN merge_updates(
                IF write
                THEN [entries |-> DictSet(state.entries, key, Head(updates).value),
                      updated_keys |-> Append(state.updated_keys, key)]
                ELSE state,
                Tail(updates), create_if_missing)

update_config_entries_always(config_text, updates, create_if_missing) ==
    LET merged == merge_updates([entries |-> parse_config_text(config_text),
                                 updated_keys |-> <<>>], updates, TRUE)
    IN [config_text |-> join_lines(serialize_entries(merged.entries)),
        updated_keys |-> merged.updated_keys]

\* config_utils.py 54-70 update_config_entries: the text written back to the
\* file and the list returned
update_config_entries(config_text, updates, create_if_missing) ==
    LET merged == merge_updates([entries |-> parse_config_text(config_text),
                                 updated_keys |-> <<>>], updates, create_if_missing)
    IN [config_text |-> join_lines(serialize_entries(merged.entries)),
        updated_keys |-> merged.updated_keys]

\* -------------------------------------------------------------- bytes, files
\* base64 text is a sequence of 6-bit values, PAD standing for "="
PAD == 64

\* base64.b64encode
RECURSIVE b64encode(_)
b64encode(bytes) ==
    IF bytes = <<>> THEN <<>>
    ELSE IF Len(bytes) = 1
    THEN <<bytes[1] \div 4, (bytes[1] % 4) * 16, PAD, PAD>>
    ELSE IF Len(bytes) = 2
    THEN <<bytes[1] \div 4, (bytes[1] % 4) * 16 + bytes[2] \div 16, (bytes[2] % 16) * 4, PAD>>
    ELSE <<bytes[1] \div 4, (bytes[1] % 4) * 16 + bytes[2] \div 16,
           (bytes[2] % 16) * 4 + bytes[3] \div 64, bytes[3] % 64>>
             \o b64encode(SubSeq(bytes, 4, Len(bytes)))

\* the bytes of well-padded base64 text
RECURSIVE b64bytes(_)
b64bytes(encoded) ==
    IF encoded = <<>> THEN <<>>
    ELSE LET a == encoded[1]
             b == encoded[2]
             c == encoded[3]
             d == encoded[4]
             rest == b64bytes(SubSeq(encoded, 5, Len(encoded)))
         IN IF c = PAD THEN <<a * 4 + b \div 16>> \o rest
            ELSE IF d = PAD THEN <<a * 4 + b \div 16, (b % 16) * 16 + c \div 4>> \o rest
            ELSE <<a * 4 + b \div 16, (b % 16) * 16 + c \div 4, (c % 4) * 64 + d>> \o rest

\* base64.b64decode: binascii.Error ("Incorrect padding") unless the length is
\* a multiple of four
b64decode(encoded) ==
    IF Len(encoded) % 4 # 0 THEN Raised("binascii.Error") ELSE Returned(b64bytes(encoded))

\* what a file holds: the str write_text wrote or the bytes write_bytes wrote
TextFile(text) == [text |-> text]
BytesFile(bytes) == [bytes |-> bytes]

\* the character of an ASCII byte, for the bytes of the model
chr(byte) == IF byte = 65 THEN "A" ELSE "B"

\* bytes.decode("utf-8") for bytes in which no byte above 127 is followed by a
\* continuation byte: one line without a newline, or UnicodeDecodeError
utf8_decode(bytes) ==
    IF \E i \in 1..Len(bytes) : bytes[i] > 127 THEN Raised("UnicodeDecodeError")
    ELSE IF bytes = <<>> THEN Returned(EmptyText)
    ELSE Returned([lines |-> <<[i \in 1..Len(bytes) |-> chr(bytes[i])]>>, eol |-> FALSE])

\* Path.read_text() of a file that exists
read_text(content) ==
    IF "text" \in DOMAIN content THEN Returned(content.text) ELSE utf8_decode(content.bytes)

\* a directory: file name -> content
EmptyDir == [name \in {} |-> TextFile(EmptyText)]
Put(files, name, content) ==
    [n \in DOMAIN files \cup {name} |-> IF n = name THEN content ELSE files[n]]

write_text_skipped(files, name, text) == files

\* Path.write_text(text): the file is created or replaced
write_text(files, name, text) == Put(files, name, TextFile(text))

\* Path.write_bytes(bytes)
write_bytes(files, name, bytes) == Put(files, name, BytesFile(bytes))

\* Path.read_text() of the file of that name, FileNotFoundError without one
read_file(files, name) ==
    IF name \in DOMAIN files THEN read_text(files[name]) ELSE Raised("FileNotFoundError")

\* the mesh file names and uploads of the model; INVALID_BASE64 is not base64
MeshNames == {DEFAULT_MESH_NAME, "wing.su2", CONFIG_NAME}
DEFAULT_UPLOAD == b64encode(<<65>>)
INVALID_BASE64 == <<16>>

\* ------------------------------------------------- SessionManager, the files
\* f"MESH_FILENAME= {mesh_file_name}"
mesh_declaration(mesh_file_name) == <<MESH_KEY, EQUALS, SPACE, mesh_file_name>>

ensure_mesh_filename_first(config_text, mesh_file_name) ==
    join_lines(<<mesh_declaration(mesh_file_name)>> \o splitlines(config_text))

\* session_manager.py 80-93 _ensure_mesh_filename_in_config: the text written
\* back for the text read
ensure_mesh_filename_in_config(config_text, mesh_file_name) ==
    LET existing == splitlines(config_text)
        matches(line) == startswith(strip(line), MESH_KEY)
        updated == [i \in 1..Len(existing) |->
                       IF matches(existing[i]) THEN mesh_declaration(mesh_file_name)
                       ELSE existing[i]]
        mesh_key_written == \E i \in 1..Len(existing) : matches(existing[i])
    IN join_lines(IF mesh_key_written THEN updated
                  ELSE Append(updated, mesh_declaration(mesh_file_name)))

\* "% Minimal SU2 config\nMESH_FILENAME= mesh.su2\n"
DEFAULT_CONFIG ==
    [lines |-> <<<<"%", SPACE, "Minimal SU2 config">>, mesh_declaration("mesh.su2")>>,
     eol |-> TRUE]

\* session_manager.py 58: initial_config or default; the empty str is falsy
initial_config_text(initial_config) ==
    IF initial_config = None \/ initial_config[1] = EmptyText THEN DEFAULT_CONFIG
    ELSE initial_config[1]

\* session_manager.py 58-66: the files create_session leaves in the new
\* directory when every write succeeds, the mesh file name it stores, and the
\* exception that ends it early
create_session_files(initial_config, initial_mesh, mesh_file_name) ==
    LET seeded == write_text(EmptyDir, CONFIG_NAME, initial_config_text(initial_config))
    IN IF initial_mesh = None
       THEN [raised |-> None, files |-> seeded, mesh_name |-> None]
       ELSE LET mesh_bytes == b64decode(initial_mesh[1])
            IN IF mesh_bytes.raised # None
               THEN [raised |-> mesh_bytes.raised, files |-> seeded, mesh_name |-> None]
               ELSE LET meshed == write_bytes(seeded, mesh_file_name, mesh_bytes.value[1])
                        existing == read_file(meshed, CONFIG_NAME)
                    IN IF existing.raised # None
                       THEN [raised |-> existing.raised, files |-> meshed, mesh_name |-> None]
                       ELSE [raised |-> None,
                             files |-> write_text(meshed, CONFIG_NAME,
                                                  ensure_mesh_filename_in_config(
                                                      existing.value[1], mesh_file_name)),
                             mesh_name |-> Some(mesh_file_name)]

\* ------------------------------------------------------------------ state
VARIABLES
    registry,   \* SessionManager._sessions: session_id -> reference into heap
    heap,       \* every SessionRecord object ever constructed, by reference
    uuids,      \* number of uuid4 values drawn so far
    fs,         \* the directories mkdtemp created: fs[d] = [exists, files: name -> content]
    pc,         \* per thread: the step it is at
    call,       \* per thread: the tool call it is executing
    loc,        \* per thread: the locals of the handler
    ret,        \* per thread: the response of the finished call
    closedOk,   \* history: ids for which close_session has returned True
    afterClose, \* history: per thread, whether its call started on a closed id
    lastOk,     \* history: per record, the last run the runner ended without error
    procs,      \* history: per thread, what launching and awaiting its process did
    lock,       \* SessionManager._lock: the thread holding it, None when free
    uploads,    \* history: per record, the last mesh upload that returned and
                \* whether every upload call on it returned without error
    rin,        \* runner model: the arguments of SU2Runner.run and what the process does
    rout,       \* runner model: the outcome of that call, None before it
    pin,        \* function models: the function called and its arguments
    pout        \* function models: the outcome of that call, None before it

serverVars ==
    <<registry, heap, uuids, fs, pc, call, loc, ret, closedOk, afterClose, lastOk, procs,
      lock, uploads>>
vars == <<serverVars, rin, rout, pin, pout>>

NoCall == [op |-> "none"]
NoLocals == [rec |-> 0]
NoProcess == [launch |-> "", located |-> FALSE, end |-> ""]

Registered == DOMAIN registry
DirExists(d) == d \in DOMAIN fs /\ fs[d].exists
FileExists(p) == DirExists(p.dir) /\ p.name \in DOMAIN fs[p.dir].files

\* ------------------------------------------------------- SessionManager
\* SessionManager.get: the lookup under the lock
get(session_id) ==
    IF session_id \in DOMAIN registry THEN Some(registry[session_id]) ELSE None

\* SessionManager.to_info
to_info(r) ==
    [session_id |-> heap[r].session_id,
     workdir |-> heap[r].workdir,
     config_path |-> heap[r].config_path,
     mesh_path |-> heap[r].mesh_path,
     last_run |-> heap[r].last_run_metadata]

InitServer ==
    /\ registry = <<>>
    /\ heap = <<>>
    /\ uuids = 0
    /\ fs = <<>>
    /\ pc = [t \in Threads |-> "idle"]
    /\ call = [t \in Threads |-> NoCall]
    /\ loc = [t \in Threads |-> NoLocals]
    /\ ret = [t \in Threads |-> NoResponse]
    /\ closedOk = {}
    /\ afterClose = [t \in Threads |-> FALSE]
    /\ lastOk = <<>>
    /\ procs = [t \in Threads |-> NoProcess]
    /\ lock = None
    /\ uploads = <<>>

NoRunnerInput == [solver |-> "", capture_log_lines |-> 0]

NoFunctionInput == [fn |-> ""]

Init == InitServer /\ rin = NoRunnerInput /\ rout = None /\ pin = NoFunctionInput /\ pout = None

\* ------------------------------------------------------------- tool calls
Solvers == {"SU2_CFD", "SU2_SOL"}
OVERRIDE_NAME == "alt.cfg"
\* relative_path arguments: a file of the session, a file that is not there, a
\* path that leaves the working directory
RelativePaths == {CONFIG_NAME, "absent.dat", "../outside"}
\* capture_log_lines arguments of the threaded models
LogLineChoices == {1}
\* what the solver process prints
SolverOutput == <<"iter 1", "iter 2">>

CreateCallsWith(configs, meshes, names) ==
    [op : {"create_su2_session"}, initial_config : configs, initial_mesh : meshes,
     mesh_file_name : names]
\* create_su2_session with the default config, and no mesh, a mesh or an
\* undecodable one under the default name
CreateCalls ==
    CreateCallsWith({None}, {None, Some(DEFAULT_UPLOAD), Some(INVALID_BASE64)},
                    {DEFAULT_MESH_NAME})
CloseCalls(ids) == [op : {"close_su2_session"}, session_id : ids, delete_workdir : BOOLEAN]
PlainCalls(ids) ==
    [op : {"get_session_info", "get_config_text", "parse_config",
           "list_result_files", "generate_deformed_mesh"},
     session_id : ids]
\* read_history_csv and sample_surface_solution of the file at relative_path
CsvCalls(ids, paths) ==
    [op : {"read_history_csv", "sample_surface_solution"}, session_id : ids,
     relative_path : paths]
SetMeshCallsWith(ids, meshes, names, flags) ==
    [op : {"set_mesh"}, session_id : ids, mesh_base64 : meshes, mesh_file_name : names,
     update_config : flags]
SetMeshCalls(ids) ==
    SetMeshCallsWith(ids, {DEFAULT_UPLOAD, INVALID_BASE64}, {DEFAULT_MESH_NAME}, BOOLEAN)
\* update_config_entries with one new key
UpdateCalls(ids) ==
    [op : {"update_config_entries"}, session_id : ids,
     updates : {<<[key |-> <<"CFL">>, value |-> IntValue(7)]>>},
     create_if_missing : {TRUE}]
RunCalls(ids, solvers, overrides, lines) ==
    [op : {"run_su2_solver"}, session_id : ids, solver : solvers,
     config_override_path : overrides, capture_log_lines : lines]
ResultFileCalls(ids) ==
    [op : {"get_result_file_base64"}, session_id : ids, relative_path : RelativePaths]

LifecycleCalls(ids) == CreateCalls \cup CloseCalls(ids)
\* every session-scoped tool; the solver run with its default arguments
SessionCalls(ids) ==
    PlainCalls(ids) \cup CsvCalls(ids, {HISTORY_CSV}) \cup UpdateCalls(ids)
        \cup SetMeshCalls(ids) \cup ResultFileCalls(ids)
        \cup RunCalls(ids, {"SU2_CFD"}, {None, Some(OVERRIDE_NAME)}, {1})
\* solver runs with every argument, and get_session_info to read last_run
RunnerCalls(ids) ==
    RunCalls(ids, Solvers, {None, Some(OVERRIDE_NAME)}, LogLineChoices)
        \cup [op : {"get_session_info"}, session_id : ids]

\* the message of each tool's catch-all handler
FailureMessage(op) ==
    CASE op = "create_su2_session" -> "Failed to create SU2 session"
      [] op = "close_su2_session" -> "Failed to close session"
      [] op = "get_session_info" -> "Failed to read session info"
      [] op = "get_config_text" -> "Failed to read config"
      [] op = "parse_config" -> "Failed to parse config"
      [] op = "update_config_entries" -> "Failed to update config"
      [] op = "set_mesh" -> "Failed to set mesh"
      [] op = "run_su2_solver" -> "Failed to run solver"
      [] op = "generate_deformed_mesh" -> "Failed to generate deformed mesh"
      [] op = "list_result_files" -> "Failed to list result files"
      [] op = "get_result_file_base64" -> "Failed to read result file"
      [] op = "read_history_csv" -> "Failed to parse history CSV"
      [] op = "sample_surface_solution" -> "Failed to sample surface solution"

FirstStep(op) ==
    CASE op = "create_su2_session" -> "create_mkdtemp"
      [] op = "close_su2_session" -> "close_pop"
      [] OTHER -> "require"

\* the step that follows the lookup at the top of a session-scoped tool
BodyStep(op) ==
    CASE op = "get_session_info" -> "info_body"
      [] op \in {"get_config_text", "parse_config"} -> "config_read"
      [] op = "update_config_entries" -> "config_update"
      [] op = "set_mesh" -> "mesh_write"
      [] op \in {"run_su2_solver", "generate_deformed_mesh"} -> "run_launch"
      [] op = "list_result_files" -> "list_files"
      [] op = "get_result_file_base64" -> "result_file"
      [] op \in {"read_history_csv", "sample_surface_solution"} -> "csv_read"

\* what a read of p, or a write to p, can do: the file or directory may be gone,
\* and an existing one may still fail (permissions, a full disk)
ReadOutcomes(p) == IF FileExists(p) THEN {"ok", "OSError"} ELSE {"FileNotFoundError"}
WriteOutcomes(p) == IF DirExists(p.dir) THEN {"ok", "OSError"} ELSE {"FileNotFoundError"}

Finish(t, response) ==
    /\ ret' = [ret EXCEPT ![t] = response]
    /\ pc' = [pc EXCEPT ![t] = "done"]

Goto(t, step) ==
    /\ pc' = [pc EXCEPT ![t] = step]
    /\ UNCHANGED ret

\* session_manager.py 75, 97, 107: "with self._lock:" is entered by one thread
\* at a time; the steps that begin with it
LockedSteps == {"create_register", "close_pop", "require", "mesh_require", "run_record"}

acquire(t) ==
    /\ pc[t] \in LockedSteps
    /\ lock = None
    /\ lock' = Some(t)
    /\ UNCHANGED <<registry, heap, uuids, fs, pc, call, loc, ret, closedOk, afterClose, lastOk,
                   procs, uploads>>
    /\ UNCHANGED <<rin, rout, pin, pout>>

release_never(t) == lock

\* the end of the "with self._lock:" block
release(t) == None

\* history: the upload a create_session call made, if any
first_upload(c) ==
    [last |-> IF c.initial_mesh = None THEN None
              ELSE Some([mesh_file_name |-> c.mesh_file_name,
                         mesh_bytes |-> b64decode(c.initial_mesh[1]).value[1]]),
     clean |-> TRUE]

\* history: a set_mesh call of t that returns in this step is logged on its record
upload_logged(t) ==
    uploads' =
        IF pc'[t] # "done" THEN uploads
        ELSE [uploads EXCEPT
                 ![loc[t].rec] =
                     IF ret'[t].error = NoError
                     THEN [last |-> Some([mesh_file_name |-> call[t].mesh_file_name,
                                          mesh_bytes |-> b64decode(call[t].mesh_base64).value[1]]),
                           clean |-> @.clean]
                     ELSE [last |-> @.last, clean |-> FALSE]]

\* a client issues call c; cap bounds the create_session calls of the model
Start(t, c, cap) ==
    /\ pc[t] = "idle"
    /\ c.op = "create_su2_session" => uuids < cap
    /\ call' = [call EXCEPT ![t] = c]
    /\ pc' = [pc EXCEPT ![t] = FirstStep(c.op)]
    /\ afterClose' = [afterClose EXCEPT
                         ![t] = c.op # "create_su2_session" /\ c.session_id \in closedOk]
    /\ UNCHANGED <<registry, heap, uuids, fs, loc, ret, closedOk, lastOk, procs>>
    /\ UNCHANGED <<rin, rout, pin, pout>>
    /\ UNCHANGED <<lock, uploads>>

\* registry model: any thread creates or closes a session
RegistryCall(t) == \E c \in LifecycleCalls(Ids) : Start(t, c, MaxSessions)

\* tool model: the client calls any tool
ToolCall(t) ==
    \E c \in LifecycleCalls(ToolIds) \cup SessionCalls(ToolIds) : Start(t, c, MaxToolSessions)

\* run model: the client creates sessions, runs solvers, reads the session info
RunnerCall(t) ==
    \E c \in CreateCalls \cup RunnerCalls(ToolIds) : Start(t, c, MaxToolSessions)

\* tool and run model: another client closes sessions meanwhile
CloseCall(t) == \E c \in CloseCalls(ToolIds) : Start(t, c, MaxToolSessions)

\* the response reaches the client
Return(t) ==
    /\ pc[t] = "done"
    /\ pc' = [pc EXCEPT ![t] = "idle"]
    /\ call' = [call EXCEPT ![t] = NoCall]
    /\ loc' = [loc EXCEPT ![t] = NoLocals]
    /\ ret' = [ret EXCEPT ![t] = NoResponse]
    /\ afterClose' = [afterClose EXCEPT ![t] = FALSE]
    /\ procs' = [procs EXCEPT ![t] = NoProcess]
    /\ UNCHANGED <<registry, heap, uuids, fs, closedOk, lastOk>>
    /\ UNCHANGED <<rin, rout, pin, pout>>
    /\ UNCHANGED <<lock, uploads>>

\* ------------------------------------------------- create_session, by step
\* session_manager.py 53: str(uuid.uuid4()), a value not drawn before
uuid4(drawn) == drawn + 1

mkdtemp_shared(directories) == 1

\* session_manager.py 55: tempfile.mkdtemp(prefix=prefix) names a directory
\* that no earlier call named
mkdtemp(directories) == Len(directories) + 1

\* session_manager.py 53-56: the id and the new, empty working directory
create_session_mkdtemp(t) ==
    /\ pc[t] = "create_mkdtemp"
    /\ uuids' = uuids + 1
    /\ fs' = Append(fs, [exists |-> TRUE, files |-> EmptyDir])
    /\ loc' = [loc EXCEPT ![t] = [rec |-> 0,
                                  session_id |-> uuid4(uuids),
                                  workdir |-> mkdtemp(fs),
                                  mesh_path |-> None]]
    /\ Goto(t, "create_write")
    /\ UNCHANGED <<registry, heap, call, closedOk, afterClose, lastOk, procs>>
    /\ UNCHANGED <<rin, rout, pin, pout>>
    /\ UNCHANGED <<lock, uploads>>

\* session_manager.py 58-66: write the config, then decode and write the mesh;
\* tools/session.py 37-38 turns an exception into a runtime_error envelope
create_session_write(t) ==
    /\ pc[t] = "create_write"
    /\ LET d == loc[t].workdir
           made == create_session_files(call[t].initial_config, call[t].initial_mesh,
                                        call[t].mesh_file_name)
           msg == FailureMessage("create_su2_session")
       IN \E io \in WriteOutcomes(Path(d, CONFIG_NAME)) :
            IF io # "ok"
            THEN /\ Finish(t, tool_except_all(io, msg))
                 /\ UNCHANGED <<fs, loc>>
            ELSE /\ fs' = [fs EXCEPT ![d].files = made.files]
                 /\ IF made.raised # None
                    THEN /\ Finish(t, tool_except_all(made.raised[1], msg))
                         /\ UNCHANGED loc
                    ELSE /\ loc' = [loc EXCEPT
                                       ![t].mesh_path =
                                           IF made.mesh_name = None THEN None
                                           ELSE Some(Path(d, made.mesh_name[1]))]
                         /\ Goto(t, "create_register")
    /\ UNCHANGED <<registry, heap, uuids, call, closedOk, afterClose, lastOk, procs>>
    /\ UNCHANGED <<rin, rout, pin, pout>>
    /\ UNCHANGED <<lock, uploads>>

\* session_manager.py 68-73: the SessionRecord create_session constructs
NewRecord(session_id, workdir, mesh_path) ==
    [session_id |-> session_id,
     workdir |-> workdir,
     config_path |-> Path(workdir, CONFIG_NAME),
     mesh_path |-> mesh_path,
     last_run_metadata |-> None]

\* self._sessions[key] = reference
Insert(key, r) ==
    [k \in DOMAIN registry \cup {key} |-> IF k = key THEN r ELSE registry[k]]

Remove_nothing(key) == registry

Remove_all(key) == <<>>

\* self._sessions.pop(key)
Remove(key) == [k \in DOMAIN registry \ {key} |-> registry[k]]

\* session_manager.py 68-78 and tools/session.py 31-36: build the record,
\* register it under the lock, return the paths
create_session_register(t) ==
    /\ pc[t] = "create_register"
    /\ lock = Some(t)
    /\ LET record == NewRecord(loc[t].session_id, loc[t].workdir, loc[t].mesh_path)
           r == Len(heap) + 1
       IN /\ heap' = Append(heap, record)
          /\ lastOk' = Append(lastOk, None)
          /\ registry' = Insert(record.session_id, r)
          /\ Finish(t, Payload([session_id |-> record.session_id,
                                workdir |-> record.workdir,
                                config_path |-> record.config_path,
                                mesh_path |-> record.mesh_path]))
    /\ UNCHANGED <<uuids, fs, call, loc, closedOk, afterClose, procs>>
    /\ UNCHANGED <<rin, rout, pin, pout>>
    /\ lock' = release(t)
    /\ uploads' = Append(uploads, first_upload(call[t]))

\* -------------------------------------------------- close_session, by step
\* session_manager.py 97-100 (and 103 when delete_workdir is false);
\* tools/session.py 44-45 wraps the boolean
close_session_pop(t) ==
    /\ pc[t] = "close_pop"
    /\ lock = Some(t)
    /\ LET found == get(call[t].session_id)
       IN IF found = None
          THEN /\ Finish(t, Payload([success |-> FALSE]))
               /\ UNCHANGED <<registry, loc, closedOk>>
          ELSE /\ registry' = Remove(call[t].session_id)
               /\ IF call[t].delete_workdir
                  THEN /\ loc' = [loc EXCEPT ![t] = [rec |-> found[1]]]
                       /\ Goto(t, "close_rmtree")
                       /\ UNCHANGED closedOk
                  ELSE /\ Finish(t, Payload([success |-> TRUE]))
                       /\ closedOk' = closedOk \cup {call[t].session_id}
                       /\ UNCHANGED loc
    /\ UNCHANGED <<heap, uuids, fs, call, afterClose, lastOk, procs>>
    /\ UNCHANGED <<rin, rout, pin, pout>>
    /\ lock' = release(t)
    /\ UNCHANGED uploads

rmtree_everything(directories, d, removed) ==
    [k \in DOMAIN directories |-> [exists |-> FALSE, files |-> EmptyDir]]

\* shutil.rmtree(d, ignore_errors=True): the tree is gone, or the removal
\* failed, which leaves it and raises nothing
rmtree(directories, d, removed) ==
    IF removed /\ d \in DOMAIN directories
    THEN [directories EXCEPT ![d] = [exists |-> FALSE, files |-> EmptyDir]]
    ELSE directories

\* session_manager.py 101-103: shutil.rmtree(workdir, ignore_errors=True); a
\* removal that fails leaves the directory and is not reported
close_session_rmtree(t) ==
    /\ pc[t] = "close_rmtree"
    /\ \E removed \in BOOLEAN : fs' = rmtree(fs, heap[loc[t].rec].workdir, removed)
    /\ Finish(t, Payload([success |-> TRUE]))
    /\ closedOk' = closedOk \cup {call[t].session_id}
    /\ UNCHANGED <<registry, heap, uuids, call, loc, afterClose, lastOk, procs>>
    /\ UNCHANGED <<rin, rout, pin, pout>>
    /\ UNCHANGED <<lock, uploads>>

\* ------------------------------------------------ session-scoped tools
\* SessionManager.require as the first statement of a tool (session_manager.py
\* 110-115): KeyError when get returns None, which the tool turns into not_found
tool_require(t) ==
    /\ pc[t] = "require"
    /\ lock = Some(t)
    /\ LET found == get(call[t].session_id)
       IN IF found = None
          THEN /\ Finish(t, tool_except("KeyError", FailureMessage(call[t].op)))
               /\ UNCHANGED loc
          ELSE /\ loc' = [loc EXCEPT ![t] = [rec |-> found[1]]]
               /\ Goto(t, BodyStep(call[t].op))
    /\ UNCHANGED <<registry, heap, uuids, fs, call, closedOk, afterClose, lastOk, procs>>
    /\ UNCHANGED <<rin, rout, pin, pout>>
    /\ lock' = release(t)
    /\ UNCHANGED uploads

\* tools/session.py 50-57, session_manager.py 135-151
get_session_info_body(t) ==
    /\ pc[t] = "info_body"
    /\ Finish(t, Payload(to_info(loc[t].rec)))
    /\ UNCHANGED <<registry, heap, uuids, fs, call, loc, closedOk, afterClose, lastOk, procs>>
    /\ UNCHANGED <<rin, rout, pin, pout>>
    /\ UNCHANGED <<lock, uploads>>

\* tools/config_tools.py 15-16 and 26-28: read_text of the config file
config_read(t) ==
    /\ pc[t] = "config_read"
    /\ \E io \in ReadOutcomes(heap[loc[t].rec].config_path) :
         Finish(t, IF io = "ok"
                   THEN Payload([config_of |-> heap[loc[t].rec].config_path])
                   ELSE tool_except(io, FailureMessage(call[t].op)))
    /\ UNCHANGED <<registry, heap, uuids, fs, call, loc, closedOk, afterClose, lastOk, procs>>
    /\ UNCHANGED <<rin, rout, pin, pout>>
    /\ UNCHANGED <<lock, uploads>>

\* tools/config_tools.py 42-45, config_utils.py 60-70: parse the file, merge,
\* write it back
config_update(t) ==
    /\ pc[t] = "config_update"
    /\ LET p == heap[loc[t].rec].config_path
           msg == FailureMessage(call[t].op)
       IN \E rd \in ReadOutcomes(p), wr \in WriteOutcomes(p) :
            IF rd # "ok"
            THEN Finish(t, tool_except(rd, msg)) /\ UNCHANGED fs
            ELSE LET existing == read_file(fs[p.dir].files, p.name)
                 IN IF existing.raised # None
                    THEN Finish(t, tool_except(existing.raised[1], msg)) /\ UNCHANGED fs
                    ELSE IF wr # "ok"
                    THEN Finish(t, tool_except(wr, msg)) /\ UNCHANGED fs
                    ELSE LET updated == update_config_entries(existing.value[1], call[t].updates,
                                                              call[t].create_if_missing)
                         IN /\ fs' = [fs EXCEPT ![p.dir].files =
                                          write_text(@, p.name, updated.config_text)]
                            /\ Finish(t, Payload([updated_keys |-> updated.updated_keys]))
    /\ UNCHANGED <<registry, heap, uuids, call, loc, closedOk, afterClose, lastOk, procs>>
    /\ UNCHANGED <<rin, rout, pin, pout>>
    /\ UNCHANGED <<lock, uploads>>

\* --------------------------------------------------------------- set_mesh
\* the directories of the model are named su2_session_<d>; a mesh_file_name
\* that climbs out of the workdir into one of them
SiblingNames ==
    [name \in {"../su2_session_1/mesh.su2", "../su2_session_2/mesh.su2"} |->
        [dir |-> IF name = "../su2_session_1/mesh.su2" THEN 1 ELSE 2, name |-> "mesh.su2"]]

JoinName_default(workdir, mesh_file_name) == Path(workdir, DEFAULT_MESH_NAME)

\* record.workdir / mesh_file_name, as the file it names
JoinName(workdir, mesh_file_name) ==
    IF mesh_file_name \in DOMAIN SiblingNames
    THEN Path(SiblingNames[mesh_file_name].dir, SiblingNames[mesh_file_name].name)
    ELSE Path(workdir, mesh_file_name)

set_mesh_path_and_config(record, p) == [record EXCEPT !.mesh_path = Some(p), !.config_path = p]

\* session_manager.py 128: record.mesh_path = mesh_path
set_mesh_path(record, p) == [record EXCEPT !.mesh_path = Some(p)]

\* session_manager.py 125-128 (update_mesh after its require): decode, write
\* the mesh file, store mesh_path on the record
mesh_write(t) ==
    /\ pc[t] = "mesh_write"
    /\ LET r == loc[t].rec
           p == JoinName(heap[r].workdir, call[t].mesh_file_name)
           mesh_bytes == b64decode(call[t].mesh_base64)
           msg == FailureMessage("set_mesh")
       IN IF mesh_bytes.raised # None
          THEN /\ Finish(t, tool_except(mesh_bytes.raised[1], msg))
               /\ UNCHANGED <<fs, heap>>
          ELSE \E wr \in WriteOutcomes(p) :
                 IF wr # "ok"
                 THEN /\ Finish(t, tool_except(wr, msg))
                      /\ UNCHANGED <<fs, heap>>
                 ELSE /\ fs' = [fs EXCEPT ![p.dir].files =
                                    write_bytes(@, p.name, mesh_bytes.value[1])]
                      /\ heap' = [heap EXCEPT ![r] = set_mesh_path(@, p)]
                      /\ Goto(t, "mesh_ensure")
    /\ UNCHANGED <<registry, uuids, call, loc, closedOk, afterClose, lastOk, procs>>
    /\ UNCHANGED <<rin, rout, pin, pout>>
    /\ UNCHANGED lock
    /\ upload_logged(t)

\* session_manager.py 129-130 (_ensure_mesh_filename_in_config reads and
\* rewrites the config), tools/config_tools.py 62-66
mesh_ensure(t) ==
    /\ pc[t] = "mesh_ensure"
    /\ LET r == loc[t].rec
           p == heap[r].config_path
           msg == FailureMessage("set_mesh")
       IN \E rd \in ReadOutcomes(p), wr \in WriteOutcomes(p) :
            IF rd # "ok"
            THEN Finish(t, tool_except(rd, msg)) /\ UNCHANGED fs
            ELSE LET existing == read_file(fs[p.dir].files, p.name)
                 IN IF existing.raised # None
                    THEN Finish(t, tool_except(existing.raised[1], msg)) /\ UNCHANGED fs
                    ELSE IF wr # "ok"
                    THEN Finish(t, tool_except(wr, msg)) /\ UNCHANGED fs
                    ELSE /\ fs' = [fs EXCEPT ![p.dir].files =
                                       write_text(@, p.name,
                                                  ensure_mesh_filename_in_config(
                                                      existing.value[1],
                                                      call[t].mesh_file_name))]
                         /\ IF call[t].update_config THEN Goto(t, "mesh_require")
                            ELSE Finish(t, Payload([mesh_path |->
                                     JoinName(heap[r].workdir, call[t].mesh_file_name)]))
    /\ UNCHANGED <<registry, heap, uuids, call, loc, closedOk, afterClose, lastOk, procs>>
    /\ UNCHANGED <<rin, rout, pin, pout>>
    /\ UNCHANGED lock
    /\ upload_logged(t)

\* tools/config_tools.py 64: the second require of set_mesh
mesh_require(t) ==
    /\ pc[t] = "mesh_require"
    /\ lock = Some(t)
    /\ IF get(call[t].session_id) = None
       THEN Finish(t, tool_except("KeyError", FailureMessage("set_mesh")))
       ELSE Goto(t, "mesh_update")
    /\ UNCHANGED <<registry, heap, uuids, fs, call, loc, closedOk, afterClose, lastOk, procs>>
    /\ UNCHANGED <<rin, rout, pin, pout>>
    /\ lock' = release(t)
    /\ upload_logged(t)

\* tools/config_tools.py 62-65: update_config_entries on the config with
\* {"MESH_FILENAME": mesh_file_name}, then the mesh path is returned
mesh_update(t) ==
    /\ pc[t] = "mesh_update"
    /\ LET r == loc[t].rec
           p == heap[r].config_path
           msg == FailureMessage("set_mesh")
           updates == <<[key |-> <<MESH_KEY>>, value |-> StrValue(<<call[t].mesh_file_name>>)]>>
       IN \E rd \in ReadOutcomes(p), wr \in WriteOutcomes(p) :
            IF rd # "ok"
            THEN Finish(t, tool_except(rd, msg)) /\ UNCHANGED fs
            ELSE LET existing == read_file(fs[p.dir].files, p.name)
                 IN IF existing.raised # None
                    THEN Finish(t, tool_except(existing.raised[1], msg)) /\ UNCHANGED fs
                    ELSE IF wr # "ok"
                    THEN Finish(t, tool_except(wr, msg)) /\ UNCHANGED fs
                    ELSE /\ fs' = [fs EXCEPT ![p.dir].files =
                                       write_text(@, p.name,
                                                  update_config_entries(existing.value[1],
                                                                        updates, TRUE).config_text)]
                         /\ Finish(t, Payload([mesh_path |->
                                JoinName(heap[r].workdir, call[t].mesh_file_name)]))
    /\ UNCHANGED <<registry, heap, uuids, call, loc, closedOk, afterClose, lastOk, procs>>
    /\ UNCHANGED <<rin, rout, pin, pout>>
    /\ UNCHANGED lock
    /\ upload_logged(t)

\* ----------------------------------------------------------- result tools
\* tools/results_tools.py 15-34: rglob over a directory that is gone yields
\* nothing; stat on a listed file can fail
list_files(t) ==
    /\ pc[t] = "list_files"
    /\ LET d == heap[loc[t].rec].workdir
       IN IF DirExists(d)
          THEN \E io \in {"ok", "OSError"} :
                 Finish(t, IF io = "ok" THEN Payload([files |-> DOMAIN fs[d].files])
                           ELSE tool_except(io, FailureMessage(call[t].op)))
          ELSE Finish(t, Payload([files |-> {}]))
    /\ UNCHANGED <<registry, heap, uuids, fs, call, loc, closedOk, afterClose, lastOk, procs>>
    /\ UNCHANGED <<rin, rout, pin, pout>>
    /\ UNCHANGED <<lock, uploads>>

\* tools/results_tools.py 43-45: the resolved path is the workdir or below it
OutsideWorkdir(relative_path) == relative_path = "../outside"

\* tools/results_tools.py 43-60
result_file(t) ==
    /\ pc[t] = "result_file"
    /\ LET p == Path(heap[loc[t].rec].workdir, call[t].relative_path)
       IN IF OutsideWorkdir(call[t].relative_path)
          THEN Finish(t, error_envelope("Requested path outside workdir", "validation_error"))
          ELSE IF ~FileExists(p)
          THEN Finish(t, error_envelope("Result file not found", "not_found"))
          ELSE \E io \in {"ok", "OSError"} :
                 Finish(t, IF io = "ok" THEN Payload([relative_path |-> call[t].relative_path])
                           ELSE tool_except(io, FailureMessage(call[t].op)))
    /\ UNCHANGED <<registry, heap, uuids, fs, call, loc, closedOk, afterClose, lastOk, procs>>
    /\ UNCHANGED <<rin, rout, pin, pout>>
    /\ UNCHANGED <<lock, uploads>>

\* tools/results_tools.py 73-93 and 115-134: record.workdir / relative_path
\* is opened as utf-8 text and read with csv.DictReader
csv_read(t) ==
    /\ pc[t] = "csv_read"
    /\ LET p == JoinName(heap[loc[t].rec].workdir, call[t].relative_path)
       IN IF ~FileExists(p)
          THEN Finish(t, error_envelope(IF call[t].op = "read_history_csv"
                                        THEN "History file not found"
                                        ELSE "Surface solution not found", "not_found"))
          ELSE \E io \in {"ok", "OSError", "UnicodeDecodeError"} :
                 Finish(t, IF io = "ok" THEN Payload([rows_of |-> p])
                           ELSE tool_except(io, FailureMessage(call[t].op)))
    /\ UNCHANGED <<registry, heap, uuids, fs, call, loc, closedOk, afterClose, lastOk, procs>>
    /\ UNCHANGED <<rin, rout, pin, pout>>
    /\ UNCHANGED <<lock, uploads>>

\* ---------------------------------------------------------------- SU2Runner
\* Python's seq[start:] for any integer start
PySliceFrom(lines, start) ==
    LET n == Len(lines)
        first == IF start < 0
                 THEN (IF n + start < 0 THEN 0 ELSE n + start)
                 ELSE (IF start > n THEN n ELSE start)
    IN SubSeq(lines, first + 1, n)

\* su2_runner.py 41: output_text.splitlines()[-capture_log_lines:]
tail_lines(lines, capture_log_lines) == PySliceFrom(lines, 0 - capture_log_lines)

\* float(value) for the cells of the model it accepts
HistoryFloats ==
    [text \in {"5", "5.0"} |-> "5.0"]

\* su2_runner.py 102-105: float(value), or the text on ValueError
history_value(value) ==
    IF Len(value) = 1 /\ value[1] \in DOMAIN HistoryFloats
    THEN FloatValue(HistoryFloats[value[1]])
    ELSE StrValue(value)

\* su2_runner.py 101-105: dict over zip(header, values)
RECURSIVE history_entry(_, _, _)
history_entry(entry, header, values) ==
    IF header = <<>> \/ values = <<>> THEN entry
    ELSE history_entry(DictSet(entry, Head(header), history_value(Head(values))),
                       Tail(header), Tail(values))

history_rows_unchecked(header, lines) ==
    [i \in 1..Len(lines) |->
        LET parts == split_all(lines[i], COMMA)
        IN history_entry(<<>>, header, [k \in 1..Len(parts) |-> strip(parts[k])])]

\* su2_runner.py 96-106: the loop over the lines after the header; a row
\* whose number of values differs from the header's is skipped
RECURSIVE history_rows(_, _)
history_rows(header, lines) ==
    IF lines = <<>> THEN <<>>
    ELSE LET parts == split_all(Head(lines), COMMA)
             values == [k \in 1..Len(parts) |-> strip(parts[k])]
             rest == history_rows(header, Tail(lines))
         IN IF Len(values) # Len(header) THEN rest
            ELSE <<history_entry(<<>>, header, values)>> \o rest

\* su2_runner.py 95: handle.readline().strip().split(","); readline gives ""
\* at the end of the file
history_header(lines) ==
    IF lines = <<>> THEN <<<<>>>> ELSE split_all(strip(Head(lines)), COMMA)

\* su2_runner.py 91-109 _read_history.  state is what opening and decoding the
\* file does: "ok", "vanished" (removed after exists() saw it), or the
\* exception raised; only FileNotFoundError is caught.  lines are the lines
\* of the file
read_history(name, state, lines) ==
    CASE state = "ok" ->
           Returned([source |-> name,
                     rows |-> history_rows(history_header(lines),
                                           IF lines = <<>> THEN <<>> ELSE Tail(lines))])
      [] state = "vanished" -> Returned([source |-> name, rows |-> <<>>])
      [] OTHER -> Raised(state)

\* su2_runner.py 85-89 _parse_history_files: history.csv, then history.dat
parse_history_files(history) ==
    LET wrap(r) == IF r.raised = None THEN Returned(Some(r.value[1])) ELSE r
    IN IF history.csv # "absent"
       THEN wrap(read_history(HISTORY_CSV, history.csv, history.csv_lines))
       ELSE IF history.dat # "absent"
       THEN wrap(read_history(HISTORY_DAT, history.dat, history.dat_lines))
       ELSE Returned(None)

TIMEOUT_MARKER == <<"Process timed out">>

\* su2_runner.py 43-51: the mapping returned when the process has exited
completed_result(solver, config_path, returncode, tail, residual_history) ==
    [success |-> returncode = 0, solver |-> solver, config_used |-> config_path,
     exit_code |-> returncode, log_tail |-> tail, residual_history |-> residual_history,
     error |-> None]

timeout_result_with_output(solver, config_path) ==
    [success |-> FALSE, solver |-> solver, config_used |-> config_path,
     exit_code |-> -1, log_tail |-> <<>>, residual_history |-> None,
     error |-> Some([type |-> "timeout", message |-> "SU2 solver execution timed out"])]

\* su2_runner.py 52-67: the mapping returned on subprocess.TimeoutExpired
timeout_result(solver, config_path) ==
    [success |-> FALSE, solver |-> solver, config_used |-> config_path,
     exit_code |-> -1, log_tail |-> TIMEOUT_MARKER, residual_history |-> None,
     error |-> Some([type |-> "timeout", message |-> "SU2 solver execution timed out"])]

missing_binary_result_as_failure(solver, config_path) ==
    [success |-> FALSE, solver |-> solver, config_used |-> config_path,
     exit_code |-> 1, log_tail |-> <<>>, residual_history |-> None,
     error |-> Some([type |-> "runtime_error", message |-> "Solver binary not found"])]

\* su2_runner.py 68-83: the mapping returned on FileNotFoundError
missing_binary_result(solver, config_path) ==
    [success |-> FALSE, solver |-> solver, config_used |-> config_path,
     exit_code |-> -1, log_tail |-> <<>>, residual_history |-> None,
     error |-> Some([type |-> "missing_binary", message |-> "Solver binary not found"])]

\* su2_runner.py 21-83 SU2Runner.run.  env is what the operating system and the
\* process do: launch ("ok" or the exception Popen raises), end ("exit" or
\* "timeout"), returncode, stdout (its lines), history (the two history files)
SU2Runner_run(solver, config_path, capture_log_lines, env) ==
    IF env.launch = "FileNotFoundError"
    THEN Returned(missing_binary_result(solver, config_path))
    ELSE IF env.launch # "ok"
    THEN Raised(env.launch)
    ELSE IF env.end = "timeout"
    THEN Returned(timeout_result(solver, config_path))
    ELSE LET residual_history == parse_history_files(env.history)
         IN IF residual_history.raised # None
            THEN residual_history
            ELSE Returned(completed_result(solver, config_path, env.returncode,
                                           tail_lines(env.stdout, capture_log_lines),
                                           residual_history.value[1]))

\* su2_runner.py 112-129
build_last_run_metadata(result) ==
    [solver |-> result.solver,
     config_used |-> result.config_used,
     exit_code |-> result.exit_code,
     log_tail |-> result.log_tail]

\* ------------------------------------------- run_su2_solver, deformed mesh
DEF_SOLVER == "SU2_DEF"
DEF_LOG_LINES == 200
OUTPUT_MESH_NAME == "mesh_def.su2"

\* the arguments of runner.run: tools/run_tools.py 32-36 and 55-57
RunnerSolver(t) == IF call[t].op = "run_su2_solver" THEN call[t].solver ELSE DEF_SOLVER
RunnerConfig(t) ==
    LET record == heap[loc[t].rec]
    IN IF call[t].op = "run_su2_solver" /\ call[t].config_override_path # None
       THEN Path(record.workdir, call[t].config_override_path[1])
       ELSE record.config_path
RunnerLogLines(t) ==
    IF call[t].op = "run_su2_solver" THEN call[t].capture_log_lines ELSE DEF_LOG_LINES

\* tools/run_tools.py 40: the runner's mapping is the tool's response, its
\* "error" key included
run_response(result) == [status |-> "returned", error |-> result.error, val |-> Some(result)]

deformed_mesh_response_with_path(workdir, result) ==
    [status |-> "returned",
     error |-> result.error,
     val |-> Some([success |-> result.success,
                   exit_code |-> result.exit_code,
                   log_tail |-> result.log_tail,
                   deformed_mesh_path |-> Some(Path(workdir, OUTPUT_MESH_NAME))])]

\* tools/run_tools.py 58-68
deformed_mesh_response(workdir, result) ==
    [status |-> "returned",
     error |-> result.error,
     val |-> Some([success |-> result.success,
                   exit_code |-> result.exit_code,
                   log_tail |-> result.log_tail,
                   deformed_mesh_path |-> IF result.success
                                          THEN Some(Path(workdir, OUTPUT_MESH_NAME))
                                          ELSE None])]

\* what the tool does with the outcome of runner.run: tools/run_tools.py 37-43
\* and 58-72
after_run(t, out) ==
    IF out.raised # None
    THEN /\ Finish(t, tool_except(out.raised[1], FailureMessage(call[t].op)))
         /\ UNCHANGED loc
    ELSE IF call[t].op = "generate_deformed_mesh"
    THEN /\ Finish(t, deformed_mesh_response(heap[loc[t].rec].workdir, out.value[1]))
         /\ UNCHANGED loc
    ELSE IF out.value[1].error # None
    THEN /\ Finish(t, run_response(out.value[1]))
         /\ UNCHANGED loc
    ELSE /\ loc' = [loc EXCEPT ![t] = [rec |-> loc[t].rec, result |-> out.value[1]]]
         /\ Goto(t, "run_record")

\* what Popen does: FileNotFoundError when the working directory is gone or the
\* executable cannot be located, PermissionError when it may not be executed
LaunchOutcome(d, located, permitted) ==
    IF ~DirExists(d) \/ ~located THEN "FileNotFoundError"
    ELSE IF ~permitted THEN "PermissionError"
    ELSE "ok"

NoHistory == [csv |-> "absent", dat |-> "absent", csv_lines |-> <<>>, dat_lines |-> <<>>]

\* su2_runner.py 30-38: subprocess.run starts the process
run_launch(t) ==
    /\ pc[t] = "run_launch"
    /\ LET d == heap[loc[t].rec].workdir
       IN \E located \in BOOLEAN, permitted \in BOOLEAN :
            LET launch == LaunchOutcome(d, located, permitted)
            IN
            /\ procs' = [procs EXCEPT ![t] = [launch |-> launch, located |-> located,
                                              end |-> ""]]
            /\ IF launch = "ok"
               THEN /\ Goto(t, "run_wait")
                    /\ UNCHANGED loc
               ELSE after_run(t, SU2Runner_run(RunnerSolver(t), RunnerConfig(t), RunnerLogLines(t),
                                               [launch |-> launch, end |-> "exit", returncode |-> 0,
                                                stdout |-> <<>>, history |-> NoHistory]))
    /\ UNCHANGED <<registry, heap, uuids, fs, call, closedOk, afterClose, lastOk>>
    /\ UNCHANGED <<rin, rout, pin, pout>>
    /\ UNCHANGED <<lock, uploads>>

\* su2_runner.py 30-51: the process exits or is killed at the timeout; on exit
\* the history files it left are parsed.  The process may have written
\* history.csv into a working directory that still exists.
run_wait(t) ==
    /\ pc[t] = "run_wait"
    /\ \E end \in {"exit", "timeout"}, returncode \in {0, 1}, wrote \in BOOLEAN,
          opened \in {"ok", "PermissionError", "UnicodeDecodeError"} :
         LET r == loc[t].rec
             d == heap[r].workdir
             fsAfter == IF wrote /\ DirExists(d)
                        THEN [fs EXCEPT ![d].files = write_text(@, HISTORY_CSV, EmptyText)]
                        ELSE fs
             csv == IF d \in DOMAIN fsAfter /\ HISTORY_CSV \in DOMAIN fsAfter[d].files
                    THEN opened ELSE "absent"
             out == SU2Runner_run(RunnerSolver(t), RunnerConfig(t), RunnerLogLines(t),
                                  [launch |-> "ok", end |-> end, returncode |-> returncode,
                                   stdout |-> SolverOutput,
                                   history |-> [csv |-> csv, dat |-> "absent",
                                               csv_lines |-> <<>>, dat_lines |-> <<>>]])
             completed == end = "exit" /\ out.raised = None
         IN /\ fs' = fsAfter
            /\ procs' = [procs EXCEPT ![t].end = end]
            /\ after_run(t, out)
            /\ lastOk' = IF call[t].op = "run_su2_solver" /\ completed
                         THEN [lastOk EXCEPT ![r] = Some([solver |-> call[t].solver,
                                                          config_used |-> RunnerConfig(t),
                                                          exit_code |-> returncode,
                                                          log_tail |-> out.value[1].log_tail])]
                         ELSE lastOk
    /\ UNCHANGED <<registry, heap, uuids, call, closedOk, afterClose>>
    /\ UNCHANGED <<rin, rout, pin, pout>>
    /\ UNCHANGED <<lock, uploads>>

record_run_first(session_id, metadata) ==
    LET found == get(session_id)
    IN IF found = None THEN Raised("KeyError")
       ELSE IF heap[found[1]].last_run_metadata # None THEN Returned(heap)
       ELSE Returned([heap EXCEPT ![found[1]].last_run_metadata = Some(metadata)])

\* session_manager.py 153-156
record_run(session_id, metadata) ==
    LET found == get(session_id)
    IN IF found = None THEN Raised("KeyError")
       ELSE Returned([heap EXCEPT ![found[1]].last_run_metadata = Some(metadata)])

\* tools/run_tools.py 38-40: build the metadata, record it, return the result
run_record(t) ==
    /\ pc[t] = "run_record"
    /\ lock = Some(t)
    /\ LET result == loc[t].result
           recorded == record_run(call[t].session_id, build_last_run_metadata(result))
       IN IF recorded.raised # None
          THEN /\ Finish(t, tool_except(recorded.raised[1], FailureMessage(call[t].op)))
               /\ UNCHANGED heap
          ELSE /\ heap' = recorded.value[1]
               /\ Finish(t, run_response(result))
    /\ UNCHANGED <<registry, uuids, fs, call, loc, closedOk, afterClose, lastOk, procs>>
    /\ UNCHANGED <<rin, rout, pin, pout>>
    /\ lock' = release(t)
    /\ UNCHANGED uploads

\* ---------------------------------------------------------- specification
\* the steps of create_session and close_session
RegistryStep(t) ==
    \/ Return(t)
    \/ acquire(t)
    \/ create_session_mkdtemp(t)
    \/ create_session_write(t)
    \/ create_session_register(t)
    \/ close_session_pop(t)
    \/ close_session_rmtree(t)

\* the steps of the session-scoped tools
ToolStep(t) ==
    \/ tool_require(t)
    \/ get_session_info_body(t)
    \/ config_read(t)
    \/ config_update(t)
    \/ mesh_write(t)
    \/ mesh_ensure(t)
    \/ mesh_require(t)
    \/ mesh_update(t)
    \/ list_files(t)
    \/ result_file(t)
    \/ csv_read(t)
    \/ run_launch(t)
    \/ run_wait(t)
    \/ run_record(t)

\* the registry under concurrent create_session and close_session calls
Next == \E t \in Threads : RegistryCall(t) \/ RegistryStep(t)

Spec == Init /\ [][Next]_vars

\* every tool, called by t1 while t2 closes sessions
NextTools ==
    \/ ToolCall("t1")
    \/ CloseCall("t2")
    \/ \E t \in Threads : RegistryStep(t) \/ ToolStep(t)

SpecTools == Init /\ [][NextTools]_vars

\* solver runs by t1 while t2 closes sessions
RunStep(t) ==
    \/ tool_require(t)
    \/ get_session_info_body(t)
    \/ run_launch(t)
    \/ run_wait(t)
    \/ run_record(t)

NextRuns ==
    \/ RunnerCall("t1")
    \/ CloseCall("t2")
    \/ \E t \in Threads : RegistryStep(t) \/ RunStep(t)

SpecRuns == Init /\ [][NextRuns]_vars

\* ------------------------------------------------------------------ claims
SessionTools ==
    {"get_session_info", "get_config_text", "parse_config", "update_config_entries",
     "set_mesh", "run_su2_solver", "generate_deformed_mesh", "list_result_files",
     "get_result_file_base64", "read_history_csv", "sample_surface_solution"}

IsNotFound(response) ==
    /\ response.status = "returned"
    /\ response.val = None
    /\ response.error # None
    /\ response.error[1].type = "not_found"

\* C1: once close_session(id) has returned True, a session-scoped tool call
\* that starts afterwards with that id gets no further than its lookup and
\* returns a not_found envelope, and the id is never in the registry again.
C1_ClosedIdStaysUnknown ==
    /\ \A t \in Threads :
         (afterClose[t] /\ call[t].op \in SessionTools) =>
             /\ pc[t] \in {"require", "done"}
             /\ pc[t] = "done" => IsNotFound(ret[t])
    /\ closedOk \cap DOMAIN registry = {}

\* a set_mesh call on an id closed before the call started has returned
C1_Witness ==
    \E t \in Threads :
        /\ pc[t] = "done"
        /\ afterClose[t]
        /\ call[t].op = "set_mesh"
        /\ IsNotFound(ret[t])

\* what the step of close_session that pops the record does
CloseSessionPopStep(t) ==
    (pc[t] = "close_pop" /\ pc'[t] # "close_pop") =>
        /\ heap' = heap
        /\ IF call[t].session_id \in DOMAIN registry
           THEN /\ DOMAIN registry' = DOMAIN registry \ {call[t].session_id}
                /\ \A k \in DOMAIN registry' : registry'[k] = registry[k]
                /\ pc'[t] = "done" => ret'[t] = Payload([success |-> TRUE])
           ELSE /\ registry' = registry
                /\ fs' = fs
                /\ pc'[t] = "done"
                /\ ret'[t] = Payload([success |-> FALSE])

\* what the step of close_session that removes the directory does
CloseSessionRmtreeStep(t) ==
    (pc[t] = "close_rmtree" /\ pc'[t] # "close_rmtree") =>
        /\ registry' = registry
        /\ heap' = heap
        /\ pc'[t] = "done"
        /\ ret'[t] = Payload([success |-> TRUE])

\* C2: close_session on an id that is not registered returns {success: false},
\* with no error envelope, and changes neither the registry nor any working
\* directory; on a registered id it removes exactly that record and returns
\* {success: true}.
C2_CloseSession ==
    [][\A t \in Threads : CloseSessionPopStep(t) /\ CloseSessionRmtreeStep(t)]_vars

\* a second close of a closed id has returned false while another session is
\* registered
C2_Witness ==
    \E t \in Threads :
        /\ pc[t] = "done"
        /\ call[t].op = "close_su2_session"
        /\ call[t].session_id \in closedOk
        /\ ret[t] = Payload([success |-> FALSE])
        /\ DOMAIN registry # {}

\* C3: no two session records the registry ever created, registered or closed,
\* have the same session_id or the same workdir.
C3_UniqueIdsAndWorkdirs ==
    \A r1, r2 \in DOMAIN heap :
        r1 # r2 => /\ heap[r1].session_id # heap[r2].session_id
                   /\ heap[r1].workdir # heap[r2].workdir

\* two records exist, one closed with its directory removed, one registered
C3_Witness ==
    /\ Len(heap) = 2
    /\ \E r \in DOMAIN heap :
         /\ heap[r].session_id \in closedOk
         /\ ~DirExists(heap[r].workdir)
    /\ DOMAIN registry # {}

\* C4: every record a lookup can return has a config_path inside its workdir
\* that names an existing file.
C4_LookupHasConfigFile ==
    \A id \in DOMAIN registry :
        LET record == heap[registry[id]]
        IN /\ record.session_id = id
           /\ record.config_path.dir = record.workdir
           /\ FileExists(record.config_path)

\* the session is still registered after a mesh upload, while a close of it
\* with delete_workdir is under way in the other thread
C4_Witness ==
    \E t, u \in Threads :
        /\ pc[t] = "done"
        /\ call[t].op = "set_mesh"
        /\ ret[t].error = None
        /\ call[t].session_id \in DOMAIN registry
        /\ pc[u] = "close_pop"
        /\ call[u].session_id = call[t].session_id
        /\ call[u].delete_workdir

\* C5: with runs issued one at a time, a registered session's last_run is null
\* until a run completes without a runner-level error and is afterwards the
\* metadata of the most recent such run, whatever its exit code; a run that
\* ends in timeout or missing_binary leaves it as it was.
C5_LastRunIsLatestCompleted ==
    \A id \in DOMAIN registry :
        LET r == registry[id]
            recording == \E t \in Threads : pc[t] = "run_record" /\ loc[t].rec = r
        IN ~recording => to_info(r).last_run = lastOk[r]

\* a run that timed out has returned and last_run still describes the earlier
\* run that exited with code 1
C5_Witness ==
    \E t \in Threads :
        /\ pc[t] = "done"
        /\ call[t].op = "run_su2_solver"
        /\ procs[t].end = "timeout"
        /\ call[t].session_id \in DOMAIN registry
        /\ LET last_run == to_info(registry[call[t].session_id]).last_run
           IN /\ last_run # None
              /\ last_run[1].exit_code = 1

\* C6: run_su2_solver with a solver that cannot be located returns success
\* false, exit_code -1, an empty log_tail, no residual_history and an error of
\* type missing_binary.
C6_MissingBinaryResult ==
    \A t \in Threads :
        (/\ pc[t] = "done"
         /\ call[t].op = "run_su2_solver"
         /\ procs[t].launch # ""
         /\ ~procs[t].located) =>
            /\ ret[t].status = "returned"
            /\ ret[t].val # None
            /\ LET result == ret[t].val[1]
               IN /\ result.success = FALSE
                  /\ result.exit_code = -1
                  /\ result.log_tail = <<>>
                  /\ result.residual_history = None
                  /\ result.error # None
                  /\ result.error[1].type = "missing_binary"

\* such a run has returned for a session that is registered and whose working
\* directory exists
C6_Witness ==
    \E t \in Threads :
        /\ pc[t] = "done"
        /\ call[t].op = "run_su2_solver"
        /\ procs[t].launch = "FileNotFoundError"
        /\ ~procs[t].located
        /\ call[t].session_id \in DOMAIN registry
        /\ DirExists(heap[registry[call[t].session_id]].workdir)
        /\ ret[t].val # None

\* C9: every session-scoped tool call returns its success payload or an error
\* envelope whose type is one of the five kinds; none raises to its caller.
C9_ToolsReturnPayloadOrEnvelope ==
    \A t \in Threads :
        (pc[t] = "done" /\ call[t].op \in SessionTools) =>
            /\ ret[t].status = "returned"
            /\ (ret[t].error = None) => (ret[t].val # None)
            /\ (ret[t].error # None) => (ret[t].error[1].type \in ErrorTypes)

\* a solver run whose executable may not be executed has returned a
\* runtime_error envelope
C9_Witness ==
    \E t \in Threads :
        /\ pc[t] = "done"
        /\ call[t].op = "run_su2_solver"
        /\ procs[t].launch = "PermissionError"
        /\ ret[t].status = "returned"
        /\ ret[t].error # None
        /\ ret[t].error[1].type = "runtime_error"

\* ------------------------------------------------------------ runner model
\* SU2Runner.run on its own: one call for every argument and every behaviour
\* of the process and of the history files
MaxLines == 3
MaxLogLines == 4

LineSeqs == UNION {[1..n -> {"a", "b"}] : n \in 0..MaxLines}
HistoryStates == {"absent", "ok", "vanished", "PermissionError", "UnicodeDecodeError"}
RunnerInputs ==
    [solver : {"SU2_CFD"},
     capture_log_lines : 0..MaxLogLines,
     launch : {"ok", "FileNotFoundError", "PermissionError"},
     end : {"exit", "timeout"},
     returncode : {0, 1},
     stdout : LineSeqs,
     csv : HistoryStates,
     dat : HistoryStates]

\* a history file of a header and one row
HISTORY_SAMPLE == <<<<"a", COMMA, "b">>, <<"5.0", COMMA, "x">>>>

InitRunner ==
    InitServer /\ rin \in RunnerInputs /\ rout = None /\ pin = NoFunctionInput /\ pout = None

runner_call ==
    /\ rout = None
    /\ rout' = Some(SU2Runner_run(rin.solver, Path(1, CONFIG_NAME), rin.capture_log_lines,
                                  [launch |-> rin.launch, end |-> rin.end,
                                   returncode |-> rin.returncode, stdout |-> rin.stdout,
                                   history |-> [csv |-> rin.csv, dat |-> rin.dat,
                                               csv_lines |-> HISTORY_SAMPLE,
                                               dat_lines |-> HISTORY_SAMPLE]]))
    /\ UNCHANGED <<serverVars, rin, pin, pout>>

NextRunner == runner_call

SpecRunner == InitRunner /\ [][NextRunner]_vars

\* the runner has returned a mapping or raised
RunnerDone == rout # None

Min(a, b) == IF a < b THEN a ELSE b

\* the last m lines of lines, in order
LastLines(lines, m) == SubSeq(lines, Len(lines) - m + 1, Len(lines))

\* C7: when the process outlives max_runtime_seconds the result has error type
\* timeout, success false, exit_code -1, the marker "Process timed out" as its
\* log_tail and no residual_history.
C7_TimeoutResult ==
    (RunnerDone /\ rin.launch = "ok" /\ rin.end = "timeout") =>
        /\ rout[1].raised = None
        /\ LET result == rout[1].value[1]
           IN /\ result.error # None
              /\ result.error[1].type = "timeout"
              /\ result.success = FALSE
              /\ result.exit_code = -1
              /\ result.log_tail = TIMEOUT_MARKER
              /\ result.residual_history = None

\* a run that printed lines and left a history file has timed out
C7_Witness ==
    /\ RunnerDone
    /\ rin.launch = "ok"
    /\ rin.end = "timeout"
    /\ rin.stdout # <<>>
    /\ rin.csv = "ok"
    /\ rout[1].raised = None

\* C8: on normal completion with n lines of output and capture_log_lines = k,
\* k >= 0 and k = 0 included, log_tail is the last min(k, n) lines in order.
C8_LogTailIsLastLines ==
    (/\ RunnerDone
     /\ rin.launch = "ok"
     /\ rin.end = "exit"
     /\ rout[1].raised = None) =>
        rout[1].value[1].log_tail
            = LastLines(rin.stdout, Min(rin.capture_log_lines, Len(rin.stdout)))

\* C10: SU2Runner.run returns a mapping for every outcome of launching the
\* process and of reading its history file; it never raises.
C10_RunnerNeverRaises ==
    RunnerDone => rout[1].raised = None

\* ------------------------------------------------------------ config model
\* the functions that build and rewrite the config file, applied to every
\* config text of up to MaxConfigLines lines
MaxConfigLines == 3
MaxUpdates == 2

ConfigLineChoices ==
    {<<"%", SPACE, "comment">>,
     <<MESH_KEY, EQUALS, SPACE, "old.su2">>,
     <<SPACE, MESH_KEY, SPACE, EQUALS, "other.su2">>,
     <<MESH_KEY, "_BACKUP", EQUALS, SPACE, "old.su2">>,
     <<"CFL", EQUALS, SPACE, "5">>,
     <<>>}

\* every str of up to MaxConfigLines of these lines, with or without a final
\* newline
ConfigTexts ==
    {text \in [lines : UNION {[1..n -> ConfigLineChoices] : n \in 0..MaxConfigLines},
               eol : BOOLEAN] :
        /\ text.lines = <<>> => ~text.eol
        /\ (text.lines # <<>> /\ ~text.eol) => text.lines[Len(text.lines)] # <<>>}

MeshUploads == {b64encode(<<65>>), b64encode(<<66, 65>>), b64encode(<<200>>), INVALID_BASE64}

UpdateKeys == {<<"CFL">>, <<"NEW_KEY">>, <<"#", "K">>}
UpdateValues == {IntValue(7), StrValue(<<"x">>)}
\* updates: a dict of up to MaxUpdates entries
UpdateDicts ==
    {updates \in UNION {[1..n -> [key : UpdateKeys, value : UpdateValues]] : n \in 0..MaxUpdates} :
        \A i, j \in 1..Len(updates) : i # j => updates[i].key # updates[j].key}

\* round trip: mappings of up to MaxUpdates entries whose values are
\* booleans, integers, strings and lists of these of every length up to two
RoundTripScalars == {BoolValue(TRUE), BoolValue(FALSE), IntValue(5), StrValue(<<"x">>)}
RoundTripValues ==
    RoundTripScalars
        \cup {ListValue(<<>>), ListValue(<<IntValue(5)>>), ListValue(<<StrValue(<<"x">>)>>),
              ListValue(<<IntValue(5), StrValue(<<"x">>)>>),
              ListValue(<<BoolValue(TRUE), IntValue(7)>>)}
RoundTripDicts ==
    {updates \in UNION {[1..n -> [key : {<<"CFL">>, <<"NEW_KEY">>}, value : RoundTripValues]] :
                            n \in 0..MaxUpdates} :
        \A i, j \in 1..Len(updates) : i # j => updates[i].key # updates[j].key}

\* parse_config_text: texts of up to MaxConfigLines of these lines
ParseLineChoices ==
    {<<>>,
     <<SPACE, "%", SPACE, "K", EQUALS, "5">>,
     <<"#", "K", EQUALS, "5">>,
     <<"CFL", SPACE, "5">>,
     <<EQUALS, SPACE, "5">>,
     <<"CFL", EQUALS, SPACE, "5">>,
     <<SPACE, "CFL", SPACE, EQUALS, "true", SPACE>>,
     <<"K", EQUALS, SPACE, "5.0">>,
     <<"K", EQUALS, "x", EQUALS, "5">>,
     <<"K", EQUALS, SPACE, "5", COMMA, SPACE, "x">>,
     <<"K", EQUALS, COMMA, "FALSE", COMMA, SPACE, COMMA, "5.0">>,
     <<"CFL", EQUALS, SPACE, COMMA>>}
ParseTexts ==
    [lines : UNION {[1..n -> ParseLineChoices] : n \in 0..MaxConfigLines}, eol : {TRUE}]

\* update_config_entries on files that declare scalars and lists, among them
\* the lists of no and of one element that a trailing comma declares
FrameLineChoices ==
    {<<"%", SPACE, "comment">>,
     <<"CFL", EQUALS, SPACE, "5">>,
     <<"NEW_KEY", EQUALS, "true">>,
     <<"K", EQUALS, SPACE, "5", COMMA, SPACE, "x">>,
     <<"K", EQUALS, SPACE, "5", COMMA>>,
     <<"MARKER", EQUALS, SPACE, COMMA>>}
FrameTexts ==
    [lines : UNION {[1..n -> FrameLineChoices] : n \in 0..MaxConfigLines}, eol : {TRUE}]

ConfigInputs ==
    [fn : {"create_session"}, initial_config : {None} \cup {Some(text) : text \in ConfigTexts},
     initial_mesh : {None} \cup {Some(upload) : upload \in MeshUploads},
     mesh_file_name : MeshNames]
      \cup [fn : {"ensure_mesh_filename_in_config"}, config_text : ConfigTexts,
            mesh_file_name : MeshNames]
      \cup [fn : {"update_config_entries"}, config_text : ConfigTexts \cup FrameTexts,
            updates : UpdateDicts, create_if_missing : BOOLEAN]
      \cup [fn : {"round_trip"}, updates : RoundTripDicts]
      \cup [fn : {"parse_config_text"}, config_text : ParseTexts]

InitConfig ==
    InitServer /\ rin = NoRunnerInput /\ rout = None /\ pin \in ConfigInputs /\ pout = None

create_session_call ==
    /\ pin.fn = "create_session"
    /\ pout = None
    /\ pout' = Some(create_session_files(pin.initial_config, pin.initial_mesh,
                                         pin.mesh_file_name))
    /\ UNCHANGED <<serverVars, rin, rout, pin>>

ensure_mesh_filename_call ==
    /\ pin.fn = "ensure_mesh_filename_in_config"
    /\ pout = None
    /\ pout' = Some(ensure_mesh_filename_in_config(pin.config_text, pin.mesh_file_name))
    /\ UNCHANGED <<serverVars, rin, rout, pin>>

update_config_entries_call ==
    /\ pin.fn = "update_config_entries"
    /\ pout = None
    /\ pout' = Some(update_config_entries(pin.config_text, pin.updates, pin.create_if_missing))
    /\ UNCHANGED <<serverVars, rin, rout, pin>>

\* update_config_entries(path, updates) on an empty file, then
\* parse_config_file(path)
round_trip_call ==
    /\ pin.fn = "round_trip"
    /\ pout = None
    /\ pout' = Some(parse_config_text(
                        update_config_entries(EmptyText, pin.updates, TRUE).config_text))
    /\ UNCHANGED <<serverVars, rin, rout, pin>>

parse_config_text_call ==
    /\ pin.fn = "parse_config_text"
    /\ pout = None
    /\ pout' = Some(parse_config_text(pin.config_text))
    /\ UNCHANGED <<serverVars, rin, rout, pin>>

NextConfig ==
    \/ create_session_call
    \/ ensure_mesh_filename_call
    \/ update_config_entries_call
    \/ round_trip_call
    \/ parse_config_text_call

SpecConfig == InitConfig /\ [][NextConfig]_vars

\* the function named fn has returned
Called(fn) == pout # None /\ pin.fn = fn

\* the line is a declaration of the key MESH_FILENAME
DeclaresMeshKey(line) == DictKeys(parse_line(<<>>, line)) = {<<MESH_KEY>>}

C12_OtherLinesKept ==
    Called("ensure_mesh_filename_in_config") =>
        LET old == splitlines(pin.config_text)
            new == splitlines(pout[1])
            declaration == mesh_declaration(pin.mesh_file_name)
            declared == {i \in 1..Len(old) : DeclaresMeshKey(old[i])}
        IN IF declared = {} THEN new = Append(old, declaration)
           ELSE /\ Len(new) = Len(old)
                /\ \A i \in 1..Len(old) :
                     new[i] = IF i \in declared THEN declaration ELSE old[i]

\* C13: without an initial mesh the config file holds initial_config character
\* for character whenever one is given, the empty string included, and the
\* default only when none is given.
C13_InitialConfigVerbatim ==
    (Called("create_session") /\ pin.initial_mesh = None) =>
        pout[1].files[CONFIG_NAME]
            = TextFile(IF pin.initial_config = None THEN DEFAULT_CONFIG
                       ELSE pin.initial_config[1])

MaxFileBytes == 3

DirNode == [kind |-> "dir"]
FileNode(bytes) == [kind |-> "file", bytes |-> bytes]
LinkNode(target) == [kind |-> "link", target |-> target]

\* the session directory as mkdtemp names it: below the temporary directory,
\* which is /tmp or a link to it
WORKDIR_NAME == "su2_session_a"
TempDir(through_link) == IF through_link THEN <<"tmplink">> ELSE <<"tmp">>
SessionDir(through_link) == Append(TempDir(through_link), WORKDIR_NAME)

\* the files on disk: the session directory with f.bin and two links, the
\* directory of another session, a file elsewhere
FileSystem(bytes) ==
    (<<"tmp">> :> DirNode)
        @@ (<<"tmplink">> :> LinkNode(<<"tmp">>))
        @@ (<<"tmp", WORKDIR_NAME>> :> DirNode)
        @@ (<<"tmp", WORKDIR_NAME, "f.bin">> :> FileNode(bytes))
        @@ (<<"tmp", WORKDIR_NAME, "in.lnk">> :> LinkNode(<<"tmp", WORKDIR_NAME, "f.bin">>))
        @@ (<<"tmp", WORKDIR_NAME, "out.lnk">> :> LinkNode(<<"etc", "secret">>))
        @@ (<<"tmp", "su2_session_b">> :> DirNode)
        @@ (<<"tmp", "su2_session_b", CONFIG_NAME>> :> FileNode(<<66>>))
        @@ (<<"etc">> :> DirNode)
        @@ (<<"etc", "secret">> :> FileNode(<<65, 66>>))

\* Path.resolve(): links followed, ".." applied, names that do not exist kept
RECURSIVE resolve_parts(_, _, _)
resolve_parts(nodes, done, todo) ==
    IF todo = <<>> THEN done
    ELSE IF Head(todo) = ".."
    THEN resolve_parts(nodes, IF done = <<>> THEN <<>> ELSE SubSeq(done, 1, Len(done) - 1),
                       Tail(todo))
    ELSE LET next == Append(done, Head(todo))
         IN IF next \in DOMAIN nodes /\ nodes[next].kind = "link"
            THEN resolve_parts(nodes, <<>>, nodes[next].target \o Tail(todo))
            ELSE resolve_parts(nodes, next, Tail(todo))

resolve(nodes, path) == resolve_parts(nodes, <<>>, path)

\* workdir / relative_path: an absolute relative_path replaces the workdir
joinpath(workdir, relative_path) ==
    IF relative_path.absolute THEN relative_path.parts ELSE workdir \o relative_path.parts

\* workdir in full_path.parents or workdir == full_path
IsAtOrBelow(full_path, workdir) ==
    /\ Len(workdir) <= Len(full_path)
    /\ SubSeq(full_path, 1, Len(workdir)) = workdir

PySliceTo_whole(seq, stop) == seq

\* Python's seq[:stop] for any integer stop
PySliceTo(seq, stop) ==
    LET n == Len(seq)
        last == IF stop < 0
                THEN (IF n + stop < 0 THEN 0 ELSE n + stop)
                ELSE (IF stop > n THEN n ELSE stop)
    IN SubSeq(seq, 1, last)

\* tools/results_tools.py 42-60 get_result_file_base64 after its lookup
get_result_file_base64(nodes, workdir, relative_path, max_bytes) ==
    LET full_path == resolve(nodes, joinpath(workdir, relative_path))
        message == FailureMessage("get_result_file_base64")
    IN IF ~IsAtOrBelow(full_path, workdir)
       THEN error_envelope("Requested path outside workdir", "validation_error")
       ELSE IF full_path \notin DOMAIN nodes
       THEN error_envelope("Result file not found", "not_found")
       ELSE IF nodes[full_path].kind = "dir"
       THEN tool_except("IsADirectoryError", message)
       ELSE LET size_bytes == Len(nodes[full_path].bytes)
                data == PySliceTo(nodes[full_path].bytes, max_bytes)
            IN Payload([relative_path |-> relative_path,
                        size_bytes |-> size_bytes,
                        truncated |-> size_bytes > max_bytes,
                        data_base64 |-> b64encode(data)])

FileBytes == UNION {[1..n -> {65, 66, 200}] : n \in 0..MaxFileBytes}

RelativePathChoices ==
    {[absolute |-> FALSE, parts |-> <<"f.bin">>],
     [absolute |-> FALSE, parts |-> <<"sub", "..", "f.bin">>],
     [absolute |-> FALSE, parts |-> <<"in.lnk">>],
     [absolute |-> FALSE, parts |-> <<"out.lnk">>],
     [absolute |-> FALSE, parts |-> <<"..", "su2_session_b", CONFIG_NAME>>],
     [absolute |-> TRUE, parts |-> <<"etc", "secret">>],
     [absolute |-> FALSE, parts |-> <<"missing.dat">>],
     [absolute |-> FALSE, parts |-> <<>>]}

ResultFileInputs ==
    [fn : {"get_result_file_base64"}, bytes : FileBytes, through_link : BOOLEAN,
     relative_path : RelativePathChoices, max_bytes : 0..(MaxFileBytes + 1)]

InitResultFile ==
    InitServer /\ rin = NoRunnerInput /\ rout = None /\ pin \in ResultFileInputs /\ pout = None

get_result_file_base64_call ==
    /\ pin.fn = "get_result_file_base64"
    /\ pout = None
    /\ pout' = Some(get_result_file_base64(FileSystem(pin.bytes), SessionDir(pin.through_link),
                                           pin.relative_path, pin.max_bytes))
    /\ UNCHANGED <<serverVars, rin, rout, pin>>

NextResultFile == get_result_file_base64_call

SpecResultFile == InitResultFile /\ [][NextResultFile]_vars

\* where the requested path really is, and the session directory
RequestedFile ==
    resolve(FileSystem(pin.bytes), joinpath(SessionDir(pin.through_link), pin.relative_path))
RealSessionDir == resolve(FileSystem(pin.bytes), SessionDir(pin.through_link))
RequestedIsFileInside ==
    /\ IsAtOrBelow(RequestedFile, RealSessionDir)
    /\ RequestedFile \in DOMAIN FileSystem(pin.bytes)
    /\ FileSystem(pin.bytes)[RequestedFile].kind = "file"

C17_ConfinedToWorkdir ==
    Called("get_result_file_base64") =>
        /\ ~IsAtOrBelow(RequestedFile, RealSessionDir) =>
             /\ pout[1].val = None
             /\ pout[1].error # None
             /\ pout[1].error[1].type = "validation_error"
        /\ RequestedIsFileInside =>
             /\ pout[1].error = None
             /\ b64decode(pout[1].val[1].data_base64)
                    = Returned(PySliceTo(FileSystem(pin.bytes)[RequestedFile].bytes,
                                         pin.max_bytes))

\* ------------------------------------------------------------ mesh uploads
\* one client creates a session, with or without a mesh, and uploads meshes
\* under the names of MeshNames, one call after the other
MeshPayloads == {b64encode(<<65>>), b64encode(<<66, 65>>), INVALID_BASE64}

MeshCalls ==
    CreateCallsWith({None}, {None, Some(DEFAULT_UPLOAD)}, MeshNames)
        \cup SetMeshCallsWith(ToolIds, MeshPayloads, MeshNames, BOOLEAN)
        \cup [op : {"get_session_info"}, session_id : ToolIds]

MeshCall(t) == \E c \in MeshCalls : Start(t, c, MaxToolSessions)

MeshStep(t) ==
    \/ Return(t)
    \/ acquire(t)
    \/ create_session_mkdtemp(t)
    \/ create_session_write(t)
    \/ create_session_register(t)
    \/ tool_require(t)
    \/ get_session_info_body(t)
    \/ mesh_write(t)
    \/ mesh_ensure(t)
    \/ mesh_require(t)
    \/ mesh_update(t)

NextMesh == MeshCall("t1") \/ MeshStep("t1")

SpecMesh == Init /\ [][NextMesh]_vars

\* no call is at work on the record
Quiescent(r) == \A t \in Threads : pc[t] \in {"idle", "done"} \/ loc[t].rec # r

IsRegistered(r) == \E id \in DOMAIN registry : registry[id] = r

\* the MESH_FILENAME entry of the config file of record r is the name
ConfigNamesMesh(r, mesh_file_name) ==
    LET p == heap[r].config_path
        config == read_file(fs[p.dir].files, p.name)
    IN /\ config.raised = None
       /\ <<MESH_KEY>> \in DictKeys(parse_config_text(config.value[1]))
       /\ DictGet(parse_config_text(config.value[1]), <<MESH_KEY>>) = StrValue(<<mesh_file_name>>)

\* the state of record r is the one its latest upload asked for
LatestUploadInPlace(r) ==
    IF uploads[r].last = None THEN to_info(r).mesh_path = None
    ELSE LET u == uploads[r].last[1]
             p == Path(heap[r].workdir, u.mesh_file_name)
         IN /\ to_info(r).mesh_path = Some(p)
            /\ FileExists(p)
            /\ fs[p.dir].files[p.name] = BytesFile(u.mesh_bytes)
            /\ ConfigNamesMesh(r, u.mesh_file_name)

\* C14: after any sequence of mesh uploads that returned without error, one
\* after the other, on a registered session, the reported mesh_path is
\* workdir/<name of the latest upload>, that file holds the bytes of the latest
\* upload, and the MESH_FILENAME entry of the config is that name; mesh_path is
\* null exactly when no mesh was ever supplied.
C14_LatestUploadInPlace ==
    \A r \in DOMAIN heap :
        (IsRegistered(r) /\ Quiescent(r) /\ uploads[r].clean) => LatestUploadInPlace(r)

\* ------------------------------------------------------- the registry lock
\* t takes a step of its call
Steps(t) == pc'[t] # pc[t]

\* C18: the step a thread takes while it holds the registry lock is an insert
\* into, a removal from or a lookup in the session mapping at one of the
\* "with self._lock" blocks, and it releases the lock: it creates no directory,
\* reads and writes no config or mesh file, deletes no working directory and
\* runs no solver.
C18_LockHeldForMappingOnly ==
    [][\A t \in Threads :
          (lock = Some(t) /\ Steps(t)) =>
              /\ pc[t] \in LockedSteps
              /\ fs' = fs
              /\ procs' = procs
              /\ lock' = None]_vars

\* t2 holds the lock for its removal while t1 is between the two file writes
\* of set_mesh
C18_Witness ==
    /\ lock = Some("t2")
    /\ pc["t2"] = "close_pop"
    /\ pc["t1"] = "mesh_ensure"

\* ------------------------------------------------------------ two sessions
\* t1 creates up to MaxSessions sessions and addresses the first of them:
\* update_config_entries, set_mesh (under the default name and under a name
\* that leads into the directory of the second), read_history_csv and
\* sample_surface_solution of the mesh of the second, run_su2_solver,
\* close_su2_session; meanwhile t2 uploads meshes to the second
SESSION_A == 1
SESSION_B == 2
PairMeshNames == {DEFAULT_MESH_NAME, "../su2_session_2/mesh.su2"}

PairCallsA ==
    CreateCallsWith({None}, {Some(DEFAULT_UPLOAD)}, {DEFAULT_MESH_NAME})
        \cup UpdateCalls({SESSION_A})
        \cup SetMeshCallsWith({SESSION_A}, {b64encode(<<66, 65>>)}, PairMeshNames, {FALSE})
        \cup CsvCalls({SESSION_A}, {"../su2_session_2/mesh.su2"})
        \cup RunCalls({SESSION_A}, {"SU2_CFD"}, {None}, {1})
        \cup CloseCalls({SESSION_A})

PairCallsB ==
    SetMeshCallsWith({SESSION_B}, {DEFAULT_UPLOAD}, {DEFAULT_MESH_NAME}, {FALSE})

PairCallA(t) == \E c \in PairCallsA : Start(t, c, MaxSessions)
PairCallB(t) == \E c \in PairCallsB : Start(t, c, MaxSessions)

PairStep(t) ==
    \/ Return(t)
    \/ acquire(t)
    \/ create_session_mkdtemp(t)
    \/ create_session_write(t)
    \/ create_session_register(t)
    \/ close_session_pop(t)
    \/ close_session_rmtree(t)
    \/ tool_require(t)
    \/ config_update(t)
    \/ mesh_write(t)
    \/ mesh_ensure(t)
    \/ csv_read(t)
    \/ run_launch(t)
    \/ run_wait(t)
    \/ run_record(t)

NextPair ==
    \/ PairCallA("t1")
    \/ PairCallB("t2")
    \/ \E t \in Threads : PairStep(t)

SpecPair == Init /\ [][NextPair]_vars

\* the content of the file at p, None without one
FileAt(files, p) ==
    IF p.dir \in DOMAIN files /\ p.name \in DOMAIN files[p.dir].files
    THEN Some(files[p.dir].files[p.name]) ELSE None

\* t takes a step of a call addressed to a session other than b
AddressesOther(t, b) ==
    /\ Steps(t)
    /\ call[t].op \in {"update_config_entries", "set_mesh", "run_su2_solver", "close_su2_session"}
    /\ call[t].session_id # b

\* the step leaves session b registered with the same record, the same record
\* fields, and the same config and mesh files
LeavesSession(b) ==
    LET r == registry[b]
    IN /\ b \in DOMAIN registry'
       /\ registry'[b] = r
       /\ heap'[r] = heap[r]
       /\ FileAt(fs', heap[r].config_path) = FileAt(fs, heap[r].config_path)
       /\ heap[r].mesh_path # None =>
              FileAt(fs', heap[r].mesh_path[1]) = FileAt(fs, heap[r].mesh_path[1])

\* C19: the steps of update_config_entries, set_mesh, run_su2_solver with its
\* run recording, and close_session with or without delete_workdir, addressed
\* to a session A leave every other registered session B as it was: B stays
\* registered, its record keeps mesh_path and last_run_metadata, its config
\* and mesh files keep their content.
C19_OtherSessionUntouched ==
    [][\A t \in Threads : \A b \in DOMAIN registry :
          AddressesOther(t, b) => LeavesSession(b)]_vars

\* --------------------------------------------------- two uploads, one session
\* t1 creates a session and uploads a mesh named FIRST_NAME to it while t2
\* uploads one named SECOND_NAME to the same session
FIRST_NAME == "wing.su2"
SECOND_NAME == "tail.su2"
FIRST_BYTES == <<65>>
SECOND_BYTES == <<66, 65>>

RaceCallsFirst ==
    CreateCallsWith({None}, {None}, {DEFAULT_MESH_NAME})
        \cup SetMeshCallsWith(ToolIds, {b64encode(FIRST_BYTES)}, {FIRST_NAME}, BOOLEAN)
RaceCallsSecond ==
    SetMeshCallsWith(ToolIds, {b64encode(SECOND_BYTES)}, {SECOND_NAME}, BOOLEAN)

RaceCallFirst(t) == \E c \in RaceCallsFirst : Start(t, c, MaxToolSessions)
RaceCallSecond(t) == \E c \in RaceCallsSecond : Start(t, c, MaxToolSessions)

RaceStep(t) ==
    \/ Return(t)
    \/ acquire(t)
    \/ create_session_mkdtemp(t)
    \/ create_session_write(t)
    \/ create_session_register(t)
    \/ tool_require(t)
    \/ mesh_write(t)
    \/ mesh_ensure(t)
    \/ mesh_require(t)
    \/ mesh_update(t)

NextRace ==
    \/ RaceCallFirst("t1")
    \/ RaceCallSecond("t2")
    \/ \E t \in Threads : RaceStep(t)

SpecRace == Init /\ [][NextRace]_vars

\* the set_mesh call of t has returned without error
UploadReturned(t) ==
    pc[t] = "done" /\ call[t].op = "set_mesh" /\ ret[t].error = NoError

\* the uploads of t1 and t2 to one session have both returned
BothReturned ==
    /\ UploadReturned("t1")
    /\ UploadReturned("t2")
    /\ call["t1"].session_id = call["t2"].session_id

\* C20: nothing orders two update_mesh calls with different file names on one
\* session: when both have returned, each mesh file holds the bytes of its
\* call, and the record's mesh_path and the config's MESH_FILENAME entry each
\* name the file of one of the two calls, not necessarily of the same one.
C20_UploadsNotSerialized ==
    BothReturned =>
        LET r == loc["t1"].rec
            d == heap[r].workdir
        IN /\ FileAt(fs, Path(d, FIRST_NAME)) = Some(BytesFile(FIRST_BYTES))
           /\ FileAt(fs, Path(d, SECOND_NAME)) = Some(BytesFile(SECOND_BYTES))
           /\ heap[r].mesh_path \in {Some(Path(d, FIRST_NAME)), Some(Path(d, SECOND_NAME))}
           /\ ConfigNamesMesh(r, FIRST_NAME) \/ ConfigNamesMesh(r, SECOND_NAME)

\* both calls have returned; mesh_path names the file of one, the config the
\* file of the other
C20_Witness ==
    /\ BothReturned
    /\ heap[loc["t1"].rec].mesh_path = Some(Path(heap[loc["t1"].rec].workdir, SECOND_NAME))
    /\ ConfigNamesMesh(loc["t1"].rec, FIRST_NAME)

\* ------------------------------------------------------- concurrent closes
\* the close_session call of t on id has returned the boolean
ClosedWith(t, id, result) ==
    /\ pc[t] = "done"
    /\ call[t].op = "close_su2_session"
    /\ call[t].session_id = id
    /\ ret[t] = Payload([success |-> result])

\* the close_session call of t on id is about to remove the working directory
Removing(t, id) ==
    /\ pc[t] = "close_rmtree"
    /\ call[t].session_id = id

WasRegistered(id) == \E r \in DOMAIN heap : heap[r].session_id = id

\* of two close_session calls on one id, at most one has removed the record;
\* when both began before any close of the id had returned, one has
OneCloseWins ==
    \A id \in Ids : \A t, u \in Threads :
        t # u =>
            /\ ~(ClosedWith(t, id, TRUE) /\ ClosedWith(u, id, TRUE))
            /\ Removing(t, id) => ~Removing(u, id) /\ ~ClosedWith(u, id, TRUE)
            /\ (/\ WasRegistered(id)
                /\ ~afterClose[t] /\ ~afterClose[u]
                /\ \E a, b \in BOOLEAN : ClosedWith(t, id, a) /\ ClosedWith(u, id, b))
                   => ClosedWith(t, id, TRUE) \/ ClosedWith(u, id, TRUE)

\* C21: of the close_session calls that run concurrently on one registered id,
\* exactly one returns true and the others return false, and only the call
\* that returns true attempts the removal of the working directory.
C21_OneCloseWins ==
    [][OneCloseWins' /\ \A t \in Threads : CloseSessionRmtreeStep(t)]_vars

\* two overlapping closes of a registered id have returned: t1, which removed
\* the directory, true, and t2 false
C21_Witness ==
    \E id \in Ids :
        /\ WasRegistered(id)
        /\ ~afterClose["t1"] /\ ~afterClose["t2"]
        /\ ClosedWith("t1", id, TRUE)
        /\ call["t1"].delete_workdir
        /\ ClosedWith("t2", id, FALSE)

\* ------------------------------------------------- the life of a workdir
\* the step removes directory d
Deletes(d) == fs[d].exists /\ ~fs'[d].exists

\* t takes the rmtree step of a close_session(id, delete_workdir=true) on the
\* session whose workdir is d
ClosesWithDelete(t, d) ==
    /\ pc[t] = "close_rmtree"
    /\ Steps(t)
    /\ call[t].op = "close_su2_session"
    /\ call[t].delete_workdir
    /\ heap[loc[t].rec].workdir = d
    /\ heap[loc[t].rec].session_id = call[t].session_id

\* C22: the workdir of a session exists from the return of create_session
\* until the rmtree of a close_session(id, delete_workdir=true) for that id
\* removes it: every registered session has its directory, no other step
\* deletes one, the steps of a close with delete_workdir=false change no
\* directory and no file, and a close whose removal fails still returns true.
C22_WorkdirLifetime ==
    [][/\ \A id \in DOMAIN registry' : DirExists(heap[registry[id]].workdir)'
       /\ \A d \in DOMAIN fs : Deletes(d) => \E t \in Threads : ClosesWithDelete(t, d)
       /\ \A t \in Threads :
            (Steps(t) /\ call[t].op = "close_su2_session" /\ ~call[t].delete_workdir)
                => fs' = fs
       /\ \A t \in Threads : CloseSessionRmtreeStep(t)]_vars

\* close_session(id, delete_workdir=true) has returned true although the
\* removal failed: the directory is still there
C22_Witness ==
    \E t \in Threads : \E r \in DOMAIN heap :
        /\ ClosedWith(t, heap[r].session_id, TRUE)
        /\ call[t].delete_workdir
        /\ DirExists(heap[r].workdir)

\* ------------------------------------------------------ config round trip
\* C23: a mapping of booleans, integers, strings and lists of these, written
\* with update_config_entries into an empty config file and parsed back, is
\* the mapping that was written: same keys in the same order, same values of
\* the same types.
C23_RoundTrip == Called("round_trip") => pout[1] = pin.updates

\* ------------------------------------------------------- parse_config_text
\* the line is not blank, does not begin with % or #, and contains "="
IsDeclaration(line) ==
    /\ strip(line) # <<>>
    /\ strip(line)[1] \notin {"%", "#"}
    /\ contains(line, EQUALS)

DeclaredKey(line) == strip(split_once(strip(line), EQUALS)[1])
DeclaredValue(line) == strip(split_once(strip(line), EQUALS)[2])

\* one scalar: boolean, else integer, else floating-point, else string
ScalarOf(value) ==
    IF Len(value) = 1 /\ value[1] \in {"true", "TRUE", "True"} THEN BoolValue(TRUE)
    ELSE IF Len(value) = 1 /\ value[1] \in {"false", "FALSE", "False"} THEN BoolValue(FALSE)
    ELSE IF value = <<"5">> THEN IntValue(5)
    ELSE IF value = <<"7">> THEN IntValue(7)
    ELSE IF value = <<"5.0">> THEN FloatValue("5.0")
    ELSE StrValue(value)

\* the value the text after "=" stands for
ValueOf(value) ==
    IF contains(value, COMMA)
    THEN LET parts == split_all(value, COMMA)
             segments == SelectSeq([i \in 1..Len(parts) |-> strip(parts[i])],
                                   LAMBDA part : part # <<>>)
         IN ListValue([i \in 1..Len(segments) |-> ScalarOf(segments[i])])
    ELSE ScalarOf(value)

\* C24: parse_config_text returns entries only for the lines that are not
\* blank, do not begin with % or #, and contain "="; the entry of a key is what
\* its last such line declares: a list of the independently inferred non-empty
\* comma-separated segments when the value contains a comma, otherwise one
\* scalar inferred as boolean, integer, floating-point or string in that
\* order; a line without "=" adds nothing and raises nothing.
C24_ParseConfigText ==
    Called("parse_config_text") =>
        LET lines == pin.config_text.lines
            entries == pout[1]
            declaring == {i \in 1..Len(lines) : IsDeclaration(lines[i]) /\ DeclaredKey(lines[i]) # <<>>}
        IN /\ DictKeys(entries) = {DeclaredKey(lines[i]) : i \in declaring}
           /\ \A i \in declaring :
                (\A j \in declaring : j > i => DeclaredKey(lines[j]) # DeclaredKey(lines[i]))
                    => DictGet(entries, DeclaredKey(lines[i])) = ValueOf(DeclaredValue(lines[i]))
           /\ \A i, j \in 1..Len(entries) : i # j => entries[i].key # entries[j].key

\* a text was parsed that holds a line without "=", a comment that contains
\* "=", and a declaration of a list with empty segments
C24_Witness ==
    /\ Called("parse_config_text")
    /\ \E i \in 1..Len(pin.config_text.lines) : pin.config_text.lines[i] = <<"CFL", SPACE, "5">>
    /\ \E i \in 1..Len(pin.config_text.lines) : pin.config_text.lines[i] = <<"#", "K", EQUALS, "5">>
    /\ pout[1] = <<[key |-> <<"K">>,
                    value |-> ListValue(<<BoolValue(FALSE), FloatValue("5.0")>>)]>>

\* --------------------------------------------------------- residual history
\* runs that complete, over history files of a header and up to
\* MaxHistoryRows rows of one, two or three cells or none
MaxHistoryRows == 2

HistoryHeaders == {<<"a">>, <<"a", COMMA, SPACE, "b", SPACE>>}
HistoryRowChoices ==
    {<<>>, <<"5">>, <<SPACE, "5.0", COMMA, SPACE, "x">>, <<"x", COMMA, "5", COMMA, "x">>}
HistoryTexts ==
    {<<>>} \cup {<<header>> \o rows :
                    header \in HistoryHeaders,
                    rows \in UNION {[1..n -> HistoryRowChoices] : n \in 0..MaxHistoryRows}}
HistoryDatTexts == {<<>>, <<<<"a">>, <<"x">>>>}

HistoryInputs ==
    [fn : {"run"}, returncode : {0, 1}, csv : HistoryStates, dat : HistoryStates,
     csv_lines : HistoryTexts, dat_lines : HistoryDatTexts]

InitHistory ==
    InitServer /\ rin = NoRunnerInput /\ rout = None /\ pin \in HistoryInputs /\ pout = None

\* SU2Runner.run for a process that starts and exits
completed_run_call ==
    /\ pin.fn = "run"
    /\ pout = None
    /\ pout' = Some(SU2Runner_run("SU2_CFD", Path(1, CONFIG_NAME), 1,
                                  [launch |-> "ok", end |-> "exit",
                                   returncode |-> pin.returncode, stdout |-> <<>>,
                                   history |-> [csv |-> pin.csv, dat |-> pin.dat,
                                                csv_lines |-> pin.csv_lines,
                                                dat_lines |-> pin.dat_lines]]))
    /\ UNCHANGED <<serverVars, rin, rout, pin>>

NextHistory == completed_run_call

SpecHistory == InitHistory /\ [][NextHistory]_vars

\* the number of cells of a line
Columns(line) == Cardinality({i \in 1..Len(line) : line[i] = COMMA}) + 1

\* the data rows of a file that have as many cells as its header, in file order
MatchingRows(lines) ==
    IF lines = <<>> THEN <<>>
    ELSE SelectSeq(Tail(lines), LAMBDA line : Columns(line) = Columns(Head(lines)))

\* the k-th cell of a line, without the blanks around it
Cell(line, k) == strip(split_all(line, COMMA)[k])

\* entry is the entry of the row under the header: a number for a cell that
\* float() accepts, the text otherwise
IsEntryOf(entry, header, row) ==
    /\ Len(entry) = Columns(header)
    /\ \A k \in 1..Columns(header) :
         /\ entry[k].key = split_all(strip(header), COMMA)[k]
         /\ entry[k].value = IF Cell(row, k) \in {<<"5">>, <<"5.0">>} THEN FloatValue("5.0")
                             ELSE StrValue(Cell(row, k))

\* rows is the parse of the file
IsParseOf(rows, lines) ==
    /\ Len(rows) = Len(MatchingRows(lines))
    /\ \A k \in 1..Len(rows) : IsEntryOf(rows[k], Head(lines), MatchingRows(lines)[k])

\* C25: after a normal completion residual_history is null when neither
\* history.csv nor history.dat exists; otherwise it is the parse of
\* history.csv when that file exists and of history.dat only when it does
\* not: one entry per data row that has as many cells as the header, in file
\* order, the rows of another length left out.
C25_ResidualHistory ==
    (Called("run") /\ pout[1].raised = None) =>
        LET residual_history == pout[1].value[1].residual_history
            chosen == IF pin.csv # "absent" THEN "csv" ELSE "dat"
            state == IF chosen = "csv" THEN pin.csv ELSE pin.dat
            lines == IF chosen = "csv" THEN pin.csv_lines ELSE pin.dat_lines
        IN IF pin.csv = "absent" /\ pin.dat = "absent" THEN residual_history = None
           ELSE /\ residual_history # None
                /\ residual_history[1].source = IF chosen = "csv" THEN HISTORY_CSV ELSE HISTORY_DAT
                /\ state = "ok" => IsParseOf(residual_history[1].rows, lines)
                /\ state = "vanished" => residual_history[1].rows = <<>>

\* both files exist; history.csv has a row of two cells and a row of three
\* under a header of two, and the result holds the one entry of the first
C25_Witness ==
    /\ Called("run")
    /\ pin.csv = "ok" /\ pin.dat = "ok"
    /\ pin.csv_lines = <<<<"a", COMMA, SPACE, "b", SPACE>>,
                         <<SPACE, "5.0", COMMA, SPACE, "x">>,
                         <<"x", COMMA, "5", COMMA, "x">>>>
    /\ pout[1].raised = None
    /\ pout[1].value[1].residual_history
         = Some([source |-> HISTORY_CSV,
                 rows |-> <<<<[key |-> <<"a">>, value |-> FloatValue("5.0")],
                              [key |-> <<SPACE, "b">>, value |-> StrValue(<<"x">>)]>>>>])

\* ------------------------------------------------- the identity of a record
\* C26: session_id, workdir and config_path of a record keep their values in
\* every step after its registration: update_mesh, set_mesh,
\* update_config_entries, run_su2_solver with or without config_override_path,
\* record_run and generate_deformed_mesh change none of the three.
C26_RecordIdentityKept ==
    [][\A r \in DOMAIN heap :
          /\ heap'[r].session_id = heap[r].session_id
          /\ heap'[r].workdir = heap[r].workdir
          /\ heap'[r].config_path = heap[r].config_path]_vars

\* a registered record has had a mesh uploaded and a run with an override
\* config recorded, and still has its id, workdir and config path
C26_Witness ==
    \E id \in DOMAIN registry :
        LET record == heap[registry[id]]
        IN /\ uploads[registry[id]].last # None
           /\ record.last_run_metadata # None
           /\ record.last_run_metadata[1].config_used # record.config_path
           /\ record.session_id = id
           /\ record.config_path = Path(record.workdir, CONFIG_NAME)

\* --------------------------------------------------------- su2_availability
\* su2_availability.py 9
DEFAULT_BINARIES == <<"SU2_CFD", "SU2_CFD_MPI", "SU2_DEF">>

\* shutil.which(name): the path of the executable found on the search path,
\* None without one
which(name, on_path) == IF name \in on_path THEN Some(<<"/usr/bin", name>>) ELSE None

\* su2_availability.py 12-22 SU2BinaryStatus
SU2BinaryStatus(name, path) == [name |-> name, path |-> path]
available(status) == status.path # None

\* su2_availability.py 25-41
discover_su2_binaries(candidates, on_path) ==
    LET probe_targets == IF candidates # None THEN candidates[1] ELSE DEFAULT_BINARIES
    IN [i \in 1..Len(probe_targets) |->
           SU2BinaryStatus(probe_targets[i], which(probe_targets[i], on_path))]

summarize_binaries_all_needed(statuses) ==
    [installed |-> \A i \in 1..Len(statuses) : available(statuses[i]),
     binaries |-> [i \in 1..Len(statuses) |->
                      [name |-> statuses[i].name, path |-> statuses[i].path,
                       available |-> available(statuses[i])]],
     missing |-> <<>>]

\* su2_availability.py 44-54
summarize_binaries(statuses) ==
    LET unavailable == SelectSeq(statuses, LAMBDA status : ~available(status))
    IN [installed |-> \E i \in 1..Len(statuses) : available(statuses[i]),
        binaries |-> [i \in 1..Len(statuses) |->
                         [name |-> statuses[i].name, path |-> statuses[i].path,
                          available |-> available(statuses[i])]],
        missing |-> [i \in 1..Len(unavailable) |-> unavailable[i].name]]

\* su2_availability.py 57-76
check_su2_installation(candidates, on_path) ==
    summarize_binaries(discover_su2_binaries(candidates, on_path))

\* every list of up to MaxCandidates names, or none, probed on every search path
MaxCandidates == 3
BinaryNames == {"SU2_CFD", "SU2_CFD_MPI", "SU2_DEF"}

AvailabilityInputs ==
    [fn : {"check_su2_installation"},
     candidates : {None} \cup {Some(names) :
                                  names \in UNION {[1..n -> BinaryNames] : n \in 0..MaxCandidates}},
     on_path : SUBSET BinaryNames]

InitAvailability ==
    InitServer /\ rin = NoRunnerInput /\ rout = None /\ pin \in AvailabilityInputs /\ pout = None

check_su2_installation_call ==
    /\ pin.fn = "check_su2_installation"
    /\ pout = None
    /\ pout' = Some(check_su2_installation(pin.candidates, pin.on_path))
    /\ UNCHANGED <<serverVars, rin, rout, pin>>

NextAvailability == check_su2_installation_call

SpecAvailability == InitAvailability /\ [][NextAvailability]_vars

\* the names check_su2_installation probes, in probe order
Probed == IF pin.candidates = None THEN DEFAULT_BINARIES ELSE pin.candidates[1]

\* C27: for every list of probed names and every availability of each,
\* check_su2_installation reports installed exactly when one of the probed
\* binaries was found, one status per probed name in probe order, and in
\* missing exactly the names that were not found, in probe order.
C27_InstallationSummary ==
    Called("check_su2_installation") =>
        /\ pout[1].installed = (\E i \in 1..Len(Probed) : Probed[i] \in pin.on_path)
        /\ Len(pout[1].binaries) = Len(Probed)
        /\ \A i \in 1..Len(Probed) :
             /\ pout[1].binaries[i].name = Probed[i]
             /\ pout[1].binaries[i].available = (Probed[i] \in pin.on_path)
             /\ (pout[1].binaries[i].path = None) = (Probed[i] \notin pin.on_path)
        /\ pout[1].missing = SelectSeq(Probed, LAMBDA name : name \notin pin.on_path)

\* a list that names a missing binary twice around one that was found
C27_Witness ==
    /\ Called("check_su2_installation")
    /\ pin.candidates = Some(<<"SU2_DEF", "SU2_CFD", "SU2_DEF">>)
    /\ pin.on_path = {"SU2_CFD", "SU2_CFD_MPI"}
    /\ pout[1].installed
    /\ pout[1].missing = <<"SU2_DEF", "SU2_DEF">>

\* ----------------------------------------------- set_mesh, update_config=false
\* t takes a step of a set_mesh call with update_config=false whose mesh file
\* is not the config file
UploadsWithoutConfig(t) ==
    /\ Steps(t)
    /\ call[t].op = "set_mesh"
    /\ ~call[t].update_config
    /\ call[t].mesh_file_name # CONFIG_NAME

\* C28: the steps of set_mesh called with update_config=false write the mesh
\* file and mesh_path and leave the config file of the session as it was,
\* byte for byte.
C28_ConfigUntouched ==
    [][\A t \in Threads :
          (UploadsWithoutConfig(t) /\ loc[t].rec # 0) =>
              FileAt(fs', heap[loc[t].rec].config_path)
                  = FileAt(fs, heap[loc[t].rec].config_path)]_vars

\* ------------------------------------------------ paths outside the workdir
\* the path argument of a call of set_mesh, read_history_csv or
\* sample_surface_solution
PathArgument(c) ==
    IF c.op = "set_mesh" THEN c.mesh_file_name ELSE c.relative_path

\* t is in a call of one of these tools, has found its session, and the
\* argument joined to the workdir names a file of another directory
ResolvesOutside(t) ==
    /\ pc[t] # "idle"
    /\ call[t].op \in {"set_mesh", "read_history_csv", "sample_surface_solution"}
    /\ loc[t].rec # 0
    /\ JoinName(heap[loc[t].rec].workdir, PathArgument(call[t])).dir
           # heap[loc[t].rec].workdir

\* t takes a step in the directory of its own session only
StaysInside(t) ==
    (Steps(t) /\ call[t].op \in {"set_mesh", "read_history_csv", "sample_surface_solution"}
              /\ loc[t].rec # 0 /\ ~ResolvesOutside(t)) =>
        \A d \in DOMAIN fs : d # heap[loc[t].rec].workdir => fs'[d] = fs[d]

\* C29: a call of set_mesh, read_history_csv or sample_surface_solution whose
\* path argument resolves outside the workdir of the addressed session
\* changes no file outside that workdir and returns an error
C29_OutsidePathsRefused ==
    [][\A t \in Threads :
          (Steps(t) /\ ResolvesOutside(t)) =>
              /\ \A d \in DOMAIN fs : d # heap[loc[t].rec].workdir => fs'[d] = fs[d]
              /\ pc'[t] = "done" => ret'[t].error # NoError]_vars

\* the same calls with a path argument inside the workdir change no file of
\* another directory
C29_InsidePathsStayInside ==
    [][\A t \in Threads : StaysInside(t)]_vars

\* ------------------------------------------------- runs of closed sessions
\* t returns from a run_su2_solver call whose solver process exited and whose
\* runner result carries no error
CompletedRunReturns(t) ==
    /\ call[t].op = "run_su2_solver"
    /\ pc[t] = "run_record"
    /\ pc'[t] = "done"

\* C30: a run_su2_solver call that found its session and whose solver process
\* completed normally returns the runner result, also when the session was
\* closed while the process ran
C30_RunResultReturned ==
    [][\A t \in Threads :
          CompletedRunReturns(t) => ret'[t] = run_response(loc[t].result)]_vars

\* the result is returned when the session is still registered as the run
\* is recorded
C30_RegisteredRunReturned ==
    [][\A t \in Threads :
          (CompletedRunReturns(t) /\ call[t].session_id \in DOMAIN registry) =>
              ret'[t] = run_response(loc[t].result)]_vars

\* ------------------------------------------------- missing_binary results
\* the response of t carries an error of type missing_binary
ReportsMissingBinary(response) ==
    /\ response.error # NoError
    /\ response.error[1].type = "missing_binary"

\* C31: run_su2_solver and generate_deformed_mesh report missing_binary only
\* when the solver executable cannot be located
C31_MissingBinaryMeansMissing ==
    \A t \in Threads :
        (/\ pc[t] = "done"
         /\ call[t].op \in {"run_su2_solver", "generate_deformed_mesh"}
         /\ ReportsMissingBinary(ret[t])) =>
            /\ procs[t].launch # ""
            /\ ~procs[t].located

\* a launch in a working directory that exists reports missing_binary only
\* when the executable cannot be located
C31_MissingBinaryInWorkdir ==
    [][\A t \in Threads :
          (/\ pc[t] = "run_launch"
           /\ pc'[t] = "done"
           /\ DirExists(heap[loc[t].rec].workdir)
           /\ ReportsMissingBinary(ret'[t])) =>
              ~procs'[t].located]_vars

\* ---------------------------------------------------- files after a close
\* a solver process is started by this step
Launches(t) ==
    /\ pc[t] = "run_launch"
    /\ procs'[t].launch = "ok"

\* t takes a step of a set_mesh, update_config_entries or run_su2_solver call
\* that has found the session of an id whose close has returned true
StepsOnClosed(t) ==
    /\ Steps(t)
    /\ call[t].op \in {"set_mesh", "update_config_entries", "run_su2_solver"}
    /\ call[t].session_id \in closedOk
    /\ loc[t].rec # 0

\* C32: once close_session(id) has returned true, no set_mesh,
\* update_config_entries or run_su2_solver call on that id creates, overwrites
\* or modifies a file of the session's workdir or starts a solver process in it
C32_NothingAfterClose ==
    [][\A t \in Threads :
          StepsOnClosed(t) =>
              /\ fs'[heap[loc[t].rec].workdir] = fs[heap[loc[t].rec].workdir]
              /\ ~Launches(t)]_vars

\* a call that starts on an id whose close has returned true changes no file
\* and starts no process
C32_StartedAfterCloseDoesNothing ==
    [][\A t \in Threads :
          (afterClose[t] /\ Steps(t)) => (fs' = fs /\ ~Launches(t))]_vars

\* ------------------------------------------------------- failed creation
\* t has returned from a create_session call whose initial_mesh is not
\* decodable base64
FailedCreate(t) ==
    /\ pc[t] = "done"
    /\ call[t].op = "create_su2_session"
    /\ call[t].initial_mesh = Some(INVALID_BASE64)

\* C33: a create_session call whose initial_mesh is not decodable returns an
\* error envelope, registers nothing, and leaves no working directory on disk
C33_FailedCreateHasNoEffect ==
    \A t \in Threads :
        FailedCreate(t) =>
            /\ ret[t].error # NoError
            /\ \A id \in DOMAIN registry : heap[registry[id]].workdir # loc[t].workdir
            /\ ~DirExists(loc[t].workdir)

\* such a call returns an error envelope and registers nothing
C33_FailedCreateRegistersNothing ==
    \A t \in Threads :
        FailedCreate(t) =>
            /\ ret[t].error # NoError
            /\ \A id \in DOMAIN registry : heap[registry[id]].workdir # loc[t].workdir

\* ------------------------------------------------ update_config_entries frame
\* the keys of entries that updates does not name, in the order of entries
KeptKeys(entries, updates) ==
    SelectSeq(DictKeyList(entries), LAMBDA key : key \notin DictKeys(updates))

\* C34: update_config_entries leaves the parsed value, scalar or list, of
\* every key of the file that updates does not name unchanged, and keeps
\* those keys in their relative order
C34_OtherEntriesKept ==
    Called("update_config_entries") =>
        LET before == parse_config_text(pin.config_text)
            after == parse_config_text(pout[1].config_text)
        IN /\ KeptKeys(after, pin.updates) = KeptKeys(before, pin.updates)
           /\ \A i \in 1..Len(before) :
                before[i].key \notin DictKeys(pin.updates) =>
                    DictGet(after, before[i].key) = before[i].value

\* the kept keys stay in their order, and those whose value is a scalar or a
\* list of two or more elements keep it
C34_ScalarsAndLongListsKept ==
    Called("update_config_entries") =>
        LET before == parse_config_text(pin.config_text)
            after == parse_config_text(pout[1].config_text)
        IN /\ KeptKeys(after, pin.updates) = KeptKeys(before, pin.updates)
           /\ \A i \in 1..Len(before) :
                (/\ before[i].key \notin DictKeys(pin.updates)
                 /\ ("list" \in DOMAIN before[i].value => Len(before[i].value.list) >= 2)) =>
                    DictGet(after, before[i].key) = before[i].value

\* ------------------------------------------------------------- termination
\* t1 calls create_session, set_mesh and run_su2_solver, t2 calls
\* close_session, get_session_info and set_mesh, on the ids of up to
\* MaxLiveSessions sessions; set_mesh with update_config = false, which takes
\* the lock once
MaxLiveSessions == 1
LiveIds == 1..MaxLiveSessions

LiveCallsFirst ==
    CreateCallsWith({None}, {None}, {DEFAULT_MESH_NAME})
        \cup SetMeshCallsWith(LiveIds, {DEFAULT_UPLOAD}, {DEFAULT_MESH_NAME}, {FALSE})
        \cup RunCalls(LiveIds, {"SU2_CFD"}, {None}, {1})

LiveCallsSecond ==
    CloseCalls(LiveIds)
        \cup [op : {"get_session_info"}, session_id : LiveIds]
        \cup SetMeshCallsWith(LiveIds, {DEFAULT_UPLOAD}, {DEFAULT_MESH_NAME}, {FALSE})

LiveCallFirst(t) == \E c \in LiveCallsFirst : Start(t, c, MaxLiveSessions)
LiveCallSecond(t) == \E c \in LiveCallsSecond : Start(t, c, MaxLiveSessions)

\* the steps of a started call
LiveStep(t) ==
    \/ Return(t)
    \/ acquire(t)
    \/ create_session_mkdtemp(t)
    \/ create_session_write(t)
    \/ create_session_register(t)
    \/ close_session_pop(t)
    \/ close_session_rmtree(t)
    \/ tool_require(t)
    \/ get_session_info_body(t)
    \/ mesh_write(t)
    \/ mesh_ensure(t)
    \/ run_launch(t)
    \/ run_wait(t)
    \/ run_record(t)

NextLive ==
    \/ LiveCallFirst("t1")
    \/ LiveCallSecond("t2")
    \/ \E t \in Threads : LiveStep(t)

\* fair scheduling: a thread that can take a step takes one, and a thread
\* that finds the lock free again and again gets it
FairScheduling ==
    \A t \in Threads : WF_vars(LiveStep(t)) /\ SF_vars(acquire(t))

SpecLive == Init /\ [][NextLive]_vars /\ FairScheduling

\* t starts no second process in one call
LaunchesOnce(t) == (pc[t] = "run_launch" /\ Steps(t)) => procs[t].launch = ""

\* t has returned a payload or an error envelope
Responded(t) == pc[t] = "done" /\ ret[t].status = "returned"

DeformedMeshReturned(t) ==
    /\ pc[t] = "done"
    /\ call[t].op = "generate_deformed_mesh"
    /\ ret[t].val # None

\* the payload of t: the path is workdir/output_mesh_name exactly when the
\* exit code is 0, and the error is the runner's: missing_binary for a launch
\* that raised FileNotFoundError, timeout for a process killed at the timeout,
\* none for a process that exited
DeformedMeshPayload(t) ==
    LET payload == ret[t].val[1]
        workdir == heap[loc[t].rec].workdir
    IN /\ payload.deformed_mesh_path =
              IF payload.exit_code = 0 THEN Some(Path(workdir, OUTPUT_MESH_NAME)) ELSE None
       /\ payload.success = (payload.exit_code = 0)
       /\ procs[t].launch = "FileNotFoundError" =>
              /\ ReportsMissingBinary(ret[t])
              /\ payload.exit_code = -1
       /\ (procs[t].launch = "ok" /\ procs[t].end = "timeout") =>
              /\ ret[t].error # NoError
              /\ ret[t].error[1].type = "timeout"
              /\ payload.exit_code = -1
       /\ (procs[t].launch = "ok" /\ procs[t].end = "exit") => ret[t].error = NoError

\* no step of a generate_deformed_mesh call changes a record or the registry
DeformedMeshFrame(t) ==
    (Steps(t) /\ call[t].op = "generate_deformed_mesh") =>
        /\ heap' = heap
        /\ registry' = registry

\* C36: generate_deformed_mesh leaves every session record and the registry
\* unchanged, its deformed_mesh_path is workdir/output_mesh_name exactly when
\* the exit code of SU2_DEF is 0 and null otherwise, and the runner's error
\* is passed through
C36_DeformedMesh ==
    [][/\ \A t \in Threads : DeformedMeshFrame(t)
       /\ \A t \in Threads : DeformedMeshReturned(t)' => DeformedMeshPayload(t)']_vars

\* a generate_deformed_mesh call has returned the path of the deformed mesh
\* after SU2_DEF exited with code 0
C36_Witness ==
    \E t \in Threads :
        /\ DeformedMeshReturned(t)
        /\ procs[t].end = "exit"
        /\ ret[t].val[1].exit_code = 0
        /\ ret[t].val[1].deformed_mesh_path # None

====
